---- MODULE Spec2Model ----
(***************************************************************************)
(* Model of qlp/tdse/computation.py: the Fock-space operator builder, the  *)
(* Hamiltonian assembler, the Lindblad dissipators and the pure- and       *)
(* mixed-state evolvers of class TDSE.                                     *)
(*                                                                         *)
(* Numbers are exact: a complex number is a pair <<re, im>> of integers,   *)
(* a matrix is a function [0..D-1 -> [0..D-1 -> complex]].                 *)
(***************************************************************************)
EXTENDS Integers, Sequences, FiniteSets, TLC

\* ------------------------------------------------------------------ bounds
\* largest qubit count N explored (graph["total_qubits"])
MaxQubits == 2

\* values drawn for the entries of Jij, hi and hxi
Coefs == {-1, 0, 1}

\* ------------------------------------------------------ complex arithmetic
CZero == <<0, 0>>
COne == <<1, 0>>
CReal(x) == <<x, 0>>
CAdd(a, b) == <<a[1] + b[1], a[2] + b[2]>>
CSub(a, b) == <<a[1] - b[1], a[2] - b[2]>>
CMul(a, b) == <<a[1] * b[1] - a[2] * b[2], a[1] * b[2] + a[2] * b[1]>>
CConj(a) == <<a[1], -a[2]>>

RECURSIVE Pow2(_)
Pow2(n) == IF n = 0 THEN 1 ELSE 2 * Pow2(n - 1)

\* sum of f[0] .. f[n-1]
RECURSIVE CSum(_, _)
CSum(f, n) == IF n = 0 THEN CZero ELSE CAdd(CSum(f, n - 1), f[n - 1])

\* ------------------------------------------------------------ matrices
\* every operation takes the dimension D of its square arguments
Ix(D) == 0 .. (D - 1)
\* an ndarray holds computed entries: the array v with every entry evaluated once
\* (the operations below do the same and take their arguments as computed arrays)
Arr(v) == CHOOSE m \in {v} : m = m
ZeroMat(D) == [r \in Ix(D) |-> [c \in Ix(D) |-> CZero]]
MatAdd(D, A, B) ==
    CHOOSE m \in {[r \in Ix(D) |-> [c \in Ix(D) |-> CAdd(a[r][c], b[r][c])]] :
                     a \in {A}, b \in {B}} : m = m
MatSub(D, A, B) ==
    CHOOSE m \in {[r \in Ix(D) |-> [c \in Ix(D) |-> CSub(a[r][c], b[r][c])]] :
                     a \in {A}, b \in {B}} : m = m
MatScale(D, z, A) ==
    CHOOSE m \in {[r \in Ix(D) |-> [c \in Ix(D) |-> CMul(w, a[r][c])]] :
                     w \in {z}, a \in {A}} : m = m
MatMul(D, A, B) ==
    CHOOSE m \in {[r \in Ix(D) |-> [c \in Ix(D) |->
                      CSum([k \in Ix(D) |-> CMul(a[r][k], b[k][c])], D)]] :
                     a \in {A}, b \in {B}} : m = m
\* conjugate transpose
Dagger(D, A) ==
    CHOOSE m \in {[r \in Ix(D) |-> [c \in Ix(D) |-> CConj(a[c][r])]] : a \in {A}} : m = m
Trace(D, A) == CSum([k \in Ix(D) |-> A[k][k]], D)
\* np.kron of a da x da matrix A and a db x db matrix B
Kron(da, A, db, B) ==
    [r \in Ix(da * db) |-> [c \in Ix(da * db) |->
        CMul(A[r \div db][c \div db], B[r % db][c % db])]]

\* ------------------------------------------------ single-qubit operators
Mat2(a, b, c, d) == [r \in 0 .. 1 |-> [k \in 0 .. 1 |->
    CReal(IF r = 0 THEN (IF k = 0 THEN a ELSE b) ELSE (IF k = 0 THEN c ELSE d))]]
ID2 == Mat2(1, 0, 0, 1)
SIG_X == Mat2(0, 1, 1, 0)
SIG_Z == Mat2(1, 0, 0, -1)
PROJ_0 == Mat2(1, 0, 0, 0)
PROJ_1 == Mat2(0, 0, 0, 1)
SIG_PLUS == Mat2(0, 0, 1, 0)
SIG_MINUS == Mat2(0, 1, 0, 0)

\* the slip of growing the product on the left: qubit 0 the rightmost factor
RECURSIVE MutPushLoopReversed(_, _, _, _)
MutPushLoopReversed(i, local, total_qubits, j) ==
    IF j = 0 THEN [r \in 0 .. 0 |-> [c \in 0 .. 0 |-> COne]]
    ELSE Kron(2, IF j - 1 = i THEN local ELSE ID2,
              Pow2(j - 1), MutPushLoopReversed(i, local, total_qubits, j - 1))
\* _pushtoFock: the loop "for j in range(total_qubits)", fock after j steps
RECURSIVE PushLoop(_, _, _, _)
PushLoop(i, local, total_qubits, j) ==
    IF j = 0 THEN [r \in 0 .. 0 |-> [c \in 0 .. 0 |-> COne]]
    ELSE Kron(Pow2(j - 1), PushLoop(i, local, total_qubits, j - 1),
              2, IF j - 1 = i THEN local ELSE ID2)
_pushtoFock(i, local, total_qubits) == PushLoop(i, local, total_qubits, total_qubits)

\* _init_Fock (module function) followed by TDSE._init_Fock, built once per N
FockTab ==
    [n \in 1 .. MaxQubits |->
        LET Z == [i \in Ix(n) |-> _pushtoFock(i, SIG_Z, n)]
        IN  [X |-> [i \in Ix(n) |-> _pushtoFock(i, SIG_X, n)],
             Z |-> Z,
             ZZ |-> [m2 \in Ix(n) |-> [m1 \in Ix(n) |-> MatMul(Pow2(n), Z[m1], Z[m2])]],
             proj0 |-> [i \in Ix(n) |-> _pushtoFock(i, PROJ_0, n)],
             proj1 |-> [i \in Ix(n) |-> _pushtoFock(i, PROJ_1, n)],
             plus |-> [i \in Ix(n) |-> _pushtoFock(i, SIG_PLUS, n)],
             minus |-> [i \in Ix(n) |-> _pushtoFock(i, SIG_MINUS, n)]]]
_init_Fock(total_qubits) == Arr(FockTab[total_qubits])

\* ------------------------------------------------------------------ state
VARIABLES
    total_qubits,   \* self.graph["total_qubits"]
    ising,          \* self.ising: Jij, hi, energyscale
    offset,         \* self.offset: normalized_time, Aoffset
    AS,             \* self.AS: the anneal schedule, A(s) and B(s) per s
    Fock,           \* self.FockX, FockZ, FockZZ, Fockproj0, Fockproj1, Fockplus, Fockminus
    IsingH,         \* self.IsingH
    IsingH_exact,   \* self.IsingH_exact
    gamma,          \* self.gamma, Unset until a caller assigns it
    gamma_local,    \* self.gamma_local, Unset until a caller assigns it
    beta,           \* self.beta, Unset until init_densitymatrix
    beta_local,     \* self.beta_local, Unset until init_densitymatrix
    Focksize,       \* self.Focksize, None until solve_mixed
    lapack,         \* what np.linalg.eigh returns for the matrix lapack.H
    ret,            \* the last call of a method: its name, arguments and result
    pure,           \* the solve_pure call in progress
    runs,           \* the solve_mixed calls in progress
    data_set        \* experiment.data_set: the rows of the Data table of an experiment

vars == <<total_qubits, ising, offset, AS, Fock, IsingH, IsingH_exact, gamma, gamma_local,
          beta, beta_local, Focksize, lapack, ret, pure, runs, data_set>>
config == <<total_qubits, ising, offset, AS, Fock, IsingH, IsingH_exact, lapack, data_set>>
fields == <<gamma, gamma_local, beta, beta_local, Focksize>>

\* 2 ** self.graph["total_qubits"]
FS == Pow2(total_qubits)

FockX == Fock.X
FockZ == Fock.Z
FockZZ == Fock.ZZ
Fockproj0 == Fock.proj0
Fockproj1 == Fock.proj1
Fockplus == Fock.plus
Fockminus == Fock.minus

\* --------------------------------------------------- Hamiltonian assembler
\* _constructIsingH, inner loop "for j in range(i)": IsingH after j steps
RECURSIVE IsingInnerLower(_, _, _, _)
IsingInnerLower(H, Jij, i, j) ==
    IF j = 0 THEN H
    ELSE MatAdd(FS, IsingInnerLower(H, Jij, i, j - 1),
                MatScale(FS, CReal(Jij[i][j - 1]), FockZZ[i][j - 1]))
RECURSIVE IsingInner(_, _, _, _)
IsingInner(H, Jij, i, j) ==
    IF j = 0 THEN H
    ELSE MatAdd(FS, IsingInner(H, Jij, i, j - 1),
                MatScale(FS, CReal(Jij[j - 1][i]), FockZZ[i][j - 1]))
\* _constructIsingH, outer loop "for i in range(total_qubits)": IsingH after i steps
RECURSIVE IsingOuterLower(_, _, _)
IsingOuterLower(Jij, hi, i) ==
    IF i = 0 THEN ZeroMat(FS)
    ELSE IsingInnerLower(MatAdd(FS, IsingOuterLower(Jij, hi, i - 1),
                           MatScale(FS, CReal(hi[i - 1]), FockZ[i - 1])),
                    Jij, i - 1, i - 1)
RECURSIVE IsingOuter(_, _, _)
IsingOuter(Jij, hi, i) ==
    IF i = 0 THEN ZeroMat(FS)
    ELSE IsingInner(MatAdd(FS, IsingOuter(Jij, hi, i - 1),
                           MatScale(FS, CReal(hi[i - 1]), FockZ[i - 1])),
                    Jij, i - 1, i - 1)
\* the slip of reading the coupling of the pair as Jij[i, j] with i > j
MutIsingLowerTriangle(Jij, hi) == IsingOuterLower(Jij, hi, total_qubits)
_constructIsingH(Jij, hi) == IsingOuter(Jij, hi, total_qubits)

\* _constructtransverseH, loop "for i in range(total_qubits)"
RECURSIVE TransverseLoop(_, _, _)
TransverseLoop(hxi, ops, i) ==
    IF i = 0 THEN ZeroMat(FS)
    ELSE MatAdd(FS, TransverseLoop(hxi, ops, i - 1), MatScale(FS, CReal(hxi[i - 1]), ops[i - 1]))
\* the slip of summing the raising operators instead of sigma^x
MutTransversePlus(hxi) == TransverseLoop(hxi, Fockplus, total_qubits)
_constructtransverseH(hxi) == TransverseLoop(hxi, FockX, total_qubits)

\* np.sqrt on the perfect squares the schedule values produce
ISqrt(n) == CHOOSE r \in 0 .. n : r * r = n

\* _Bij: row j, column i holds sqrt(B[i] * B[j])
MutBijNoSqrt(B) == [j \in Ix(total_qubits) |-> [i \in Ix(total_qubits) |-> B[i]]]
_Bij(B) == [j \in Ix(total_qubits) |-> [i \in Ix(total_qubits) |-> ISqrt(B[i] * B[j])]]

\* numpy's elementwise products of two N x N arrays and of two length-N arrays
ElemMat(P, Q) == [i \in DOMAIN P |-> [j \in DOMAIN P[i] |-> P[i][j] * Q[i][j]]]
ElemVec(p, q) == [i \in DOMAIN p |-> p[i] * q[i]]

\* AnnealSchedule.A(s) and .B(s): one coefficient per qubit
AS_A(s) == AS.A[s]
AS_B(s) == AS.B[s]

\* annealingH(s)
MutAnnealingNoOffset(s) ==
    LET AxtransverseH == _constructtransverseH(AS_A(s))
        BxIsingH == _constructIsingH(ElemMat(_Bij(AS_B(s)), ising.Jij),
                                     ElemVec(AS_B(s), ising.hi))
    IN  MatScale(FS, CReal(ising.energyscale),
                 MatAdd(FS, MatScale(FS, CReal(-1), AxtransverseH), BxIsingH))
\* the slip of leaving B(s) out of the problem term
MutAnnealingUnitB(s) ==
    LET AxtransverseH ==
            _constructtransverseH([i \in Ix(total_qubits) |-> (AS_A(s)[i] + offset.Aoffset) * 1])
        BxIsingH == _constructIsingH(ising.Jij, ising.hi)
    IN  MatScale(FS, CReal(ising.energyscale),
                 MatAdd(FS, MatScale(FS, CReal(-1), AxtransverseH), BxIsingH))
annealingH(s) ==
    LET AxtransverseH ==
            _constructtransverseH([i \in Ix(total_qubits) |-> (AS_A(s)[i] + offset.Aoffset) * 1])
        BxIsingH == _constructIsingH(ElemMat(_Bij(AS_B(s)), ising.Jij),
                                     ElemVec(AS_B(s), ising.hi))
    IN  MatScale(FS, CReal(ising.energyscale),
                 MatAdd(FS, MatScale(FS, CReal(-1), AxtransverseH), BxIsingH))

\* ------------------------------------------------------------- inputs
STimes == {0, 1}    \* the normalized times s at which the schedule is tabulated
\* an attribute never assigned is << >>, an assigned one holds <<value>>
Unset == << >>
\* self.Focksize = FocksizeNone, the value __init__ leaves (no matrix has size 0)
FocksizeNone == 0
None == "None"
NoCall == [op |-> "none"]
NoEigh == [D |-> 0]
IdlePure == [pc |-> "idle"]
NoRuns == << >>

UpperPairs(n) == {p \in Ix(n) \X Ix(n) : p[1] < p[2]}
\* coupling matrices: free entries above the diagonal, g on and below it
JSetOf(n, U, G) ==
    {[i \in Ix(n) |-> [j \in Ix(n) |-> IF i < j THEN u[<<i, j>>] ELSE g]] :
        u \in [UpperPairs(n) -> U], g \in G}
HSetOf(n, V) == [Ix(n) -> V]
\* schedules: A(s) = 1 - s + k on every qubit, B(s)[i] = w[i] * (s + k)^2
SchedSet(n) ==
    {[A |-> [s \in STimes |-> [i \in Ix(n) |-> 1 - s + k]],
      B |-> [s \in STimes |-> [i \in Ix(n) |-> w[i] * (s + k) * (s + k)]]] :
        w \in [Ix(n) -> {1, 4}], k \in {0, 1}}
DefaultSched(n) ==
    [A |-> [s \in STimes |-> [i \in Ix(n) |-> 1 - s]],
     B |-> [s \in STimes |-> [i \in Ix(n) |-> s]]]

\* the fields __init__ leaves unassigned and the idle solvers
NoData == << >>
\* the two Hamiltonians __init__ caches
InitCached ==
    /\ IsingH = Arr(_constructIsingH(ElemMat(_Bij(AS_B(1)), ising.Jij),
                                     ElemVec(AS_B(1), ising.hi)))
    /\ IsingH_exact = Arr(_constructIsingH(ising.Jij, ising.hi))

InitRest ==
    /\ gamma = Unset
    /\ gamma_local = Unset
    /\ beta = Unset
    /\ beta_local = Unset
    /\ Focksize = FocksizeNone
    /\ lapack = NoEigh
    /\ ret = NoCall
    /\ pure = IdlePure
    /\ runs = NoRuns
    /\ InitCached
    /\ data_set = NoData

\* ------------------------------------------- specification: the builders
InitIsing ==
    /\ total_qubits \in 1 .. MaxQubits
    /\ Fock = _init_Fock(total_qubits)
    /\ \E J \in JSetOf(total_qubits, Coefs, Coefs), h \in HSetOf(total_qubits, Coefs) :
           ising = [Jij |-> J, hi |-> h, energyscale |-> 1]
    /\ offset = [normalized_time |-> <<0, 1>>, Aoffset |-> 0]
    /\ AS = DefaultSched(total_qubits)
    /\ InitRest

\* IsingH_exact = self._constructIsingH(np.array(self.ising["Jij"]), self.ising["hi"])
CallConstructIsingH ==
    /\ ret = NoCall
    /\ ret' = [op |-> "_constructIsingH", Jij |-> ising.Jij, hi |-> ising.hi,
               val |-> _constructIsingH(ising.Jij, ising.hi)]
    /\ UNCHANGED <<config, fields, pure, runs>>

\* the argument hxi ranges over the same vectors as hi
CallConstructtransverseH ==
    /\ ret = NoCall
    /\ ret' = [op |-> "_constructtransverseH", hxi |-> ising.hi,
               val |-> _constructtransverseH(ising.hi)]
    /\ UNCHANGED <<config, fields, pure, runs>>

NextIsing == CallConstructIsingH \/ CallConstructtransverseH
SpecIsing == InitIsing /\ [][NextIsing]_vars

\* ------------------------------------------------------------ claims C1, C3
\* sum of the matrices f[0] .. f[n-1] of dimension D
RECURSIVE MatSum(_, _, _)
MatSum(f, n, D) == IF n = 0 THEN ZeroMat(D) ELSE MatAdd(D, MatSum(f, n - 1, D), f[n - 1])

\* sum_i h[i] FockZ[i] + sum_{i<j} J[i,j] FockZ[i] FockZ[j]
RefIsing(J, h) ==
    LET N == total_qubits
        D == Pow2(N)
    IN  MatAdd(FS, MatSum([i \in Ix(N) |-> MatScale(FS, CReal(h[i]), FockZ[i])], N, D),
               MatSum([k \in Ix(N * N) |->
                          IF (k \div N) < (k % N)
                          THEN MatScale(FS, CReal(J[k \div N][k % N]),
                                        MatMul(FS, FockZ[k \div N], FockZ[k % N]))
                          ELSE ZeroMat(D)], N * N, D))

\* C1: _constructIsingH(J, h) is sum_i h[i] FockZ[i] + sum_{i<j} J[i,j] FockZ[i] FockZ[j],
\* and changing any entry J[i,j] with i >= j leaves the result unchanged.
C1_IsingUpperTriangular ==
    ret.op = "_constructIsingH" =>
        /\ ret.val = RefIsing(ret.Jij, ret.hi)
        /\ \A i \in Ix(total_qubits), j \in Ix(total_qubits), v \in Coefs :
               i >= j =>
                   _constructIsingH([ret.Jij EXCEPT ![i][j] = v], ret.hi) = ret.val

\* a call with a coupling above the diagonal and a different entry below it
C1_Witness ==
    /\ ret.op = "_constructIsingH"
    /\ total_qubits >= 2
    /\ ret.Jij[0][1] # 0
    /\ ret.Jij[1][0] # 0
    /\ ret.Jij[1][0] # ret.Jij[0][1]
    /\ ret.hi[0] # 0
    /\ ret.val # ZeroMat(FS)

\* C3: the matrices _constructIsingH and _constructtransverseH return are
\* Hermitian: each equals its own conjugate transpose.
C3_Hermitian ==
    ret.op \in {"_constructIsingH", "_constructtransverseH"} =>
        ret.val = Dagger(FS, ret.val)

\* a transverse Hamiltonian with off-diagonal entries has been built
C3_Witness ==
    /\ ret.op = "_constructtransverseH"
    /\ \E r \in Ix(FS), c \in Ix(FS) : r # c /\ ret.val[r][c] # CZero

\* ------------------------------------- specification: the annealing Hamiltonian
EnergyScales == {0, 2}
AOffsets == {0, 1}

InitAnneal ==
    /\ total_qubits \in 1 .. MaxQubits
    /\ Fock = _init_Fock(total_qubits)
    /\ \E J \in JSetOf(total_qubits, {-1, 1}, {1}), h \in HSetOf(total_qubits, {-1, 1}),
          e \in EnergyScales :
           ising = [Jij |-> J, hi |-> h, energyscale |-> e]
    /\ \E a \in AOffsets : offset = [normalized_time |-> <<0, 1>>, Aoffset |-> a]
    /\ AS \in SchedSet(total_qubits)
    /\ InitRest

\* the slip of keeping the Hamiltonian just assembled in self.IsingH
MutCallAnnealingHCaching ==
    /\ ret = NoCall
    /\ \E s \in STimes :
           /\ ret' = [op |-> "annealingH", s |-> s, val |-> annealingH(s)]
           /\ IsingH' = annealingH(s)
    /\ UNCHANGED <<total_qubits, ising, offset, AS, Fock, IsingH_exact, lapack, data_set,
                   fields, pure, runs>>
CallAnnealingH ==
    /\ ret = NoCall
    /\ \E s \in STimes : ret' = [op |-> "annealingH", s |-> s, val |-> annealingH(s)]
    /\ UNCHANGED <<config, fields, pure, runs>>

CallBij ==
    /\ ret = NoCall
    /\ \E s \in STimes : ret' = [op |-> "_Bij", B |-> AS_B(s), val |-> _Bij(AS_B(s))]
    /\ UNCHANGED <<config, fields, pure, runs>>

NextAnneal == CallAnnealingH \/ CallBij
SpecAnneal == InitAnneal /\ [][NextAnneal]_vars

\* ------------------------------------------------------------------ claim C2
\* sum_i hx[i] FockX[i]
RefTransverse(hx) ==
    MatSum([i \in Ix(total_qubits) |-> MatScale(FS, CReal(hx[i]), FockX[i])],
           total_qubits, Pow2(total_qubits))

\* C2: annealingH(s) is energyscale * ( -transverse((A(s)+Aoffset) on every qubit)
\* + Ising(Bij(s)*J, B(s)*h) ) with Bij(s)[i,j] = sqrt(B(s)[i]*B(s)[j]), symmetric.
C2_AnnealingH ==
    /\ ret.op = "annealingH" =>
           LET B == AS_B(ret.s)
               Bij == [i \in Ix(total_qubits) |-> [j \in Ix(total_qubits) |->
                          ISqrt(B[i] * B[j])]]
               hx == [i \in Ix(total_qubits) |-> AS_A(ret.s)[i] + offset.Aoffset]
           IN  ret.val =
                   MatScale(FS, CReal(ising.energyscale),
                            MatSub(FS, RefIsing(ElemMat(Bij, ising.Jij), ElemVec(B, ising.hi)),
                                   RefTransverse(hx)))
    /\ ret.op = "_Bij" =>
           \A i \in Ix(total_qubits), j \in Ix(total_qubits) :
               /\ ret.val[i][j] * ret.val[i][j] = ret.B[i] * ret.B[j]
               /\ ret.val[i][j] >= 0
               /\ ret.val[i][j] = ret.val[j][i]

\* a Hamiltonian with both terms, an energy scale, an offset and unequal B
C2_Witness ==
    /\ ret.op = "annealingH"
    /\ total_qubits >= 2
    /\ ising.energyscale = 2
    /\ offset.Aoffset # 0
    /\ AS_B(ret.s)[0] # AS_B(ret.s)[1]
    /\ AS_B(ret.s)[0] # 0
    /\ ret.val[0][0] # CZero
    /\ ret.val[0][1] # CZero

\* ------------------------------------------------------- Lindblad dissipators
\* np.exp on the integer exponents of the model: exp(0) = 1 and distinct
\* exponents give distinct values; the dissipators use e only as a coefficient
np_exp(x) == IF x = 0 THEN 1 ELSE 2 - x

\* x / y on the values of the model, where y divides x
TrueDiv(x, y) == x \div y

\* np.linalg.eigh(H.toarray()): eigenvalues ascending, eigenvectors in the columns
eigh(H) == [value |-> lapack.w, vector |-> lapack.v]

Returned(val, n) == [raised |-> "no", val |-> val, eigh |-> n]
\* a result computed with a division by 0: numpy warns and goes on with inf or nan
Warned(val, n, w) == [raised |-> "no", val |-> val, eigh |-> n, warning |-> w]
NaN == <<"nan", "nan">>
NanMat(D) == [r \in Ix(D) |-> [c \in Ix(D) |-> NaN]]
\* np.exp(x / y) of one pair of levels: with y = 0 and x < 0 it is exp(-inf) = 0;
\* with y = 0 and x = 0 it is nan, which ZeroGap tells apart
ExpOfQuotient(x, y) == IF y = 0 THEN 0 ELSE np_exp(TrueDiv(x, y))
ZeroGap(value) == \E i, j \in 1 .. Len(value) : i < j /\ value[j] - value[i] = 0
Raised(exc, n) == [raised |-> exc, val |-> None, eigh |-> n]

\* the term a pair (i, j), i < j, adds to lindblad in get_lindblad3
Lindblad3Term(D, ymat, vector, e, i, j) ==
    LET lowering == Arr([a \in Ix(D) |-> [b \in Ix(D) |->
                        CMul(vector[a][i], CConj(vector[b][j]))]])
        raising == Dagger(D, lowering)
        rhoraising == MatMul(D, ymat, raising)
        rholowering == MatMul(D, ymat, lowering)
        raisingrho == MatMul(D, raising, ymat)
        loweringrho == MatMul(D, lowering, ymat)
    IN  MatSub(D,
            MatSub(D,
                MatAdd(D,
                    MatMul(D, lowering,
                           MatSub(D, MatScale(D, CReal(2), rhoraising),
                                     MatScale(D, CReal(e), raisingrho))),
                    MatMul(D, raising,
                           MatSub(D, MatScale(D, CReal(2 * e), rholowering), loweringrho))),
                MatMul(D, rhoraising, lowering)),
            MatScale(D, CReal(e), MatMul(D, rholowering, raising)))

\* get_lindblad3: the naive global dissipator
get_lindblad3(ymat, gamma_arg, H, t) ==
    LET ev == eigh(H)
        value == ev.value
        vector == ev.vector
        D == Len(value)
        E(i, j) == ExpOfQuotient(-beta[1] * (value[j + 1] - value[i + 1]), ising.energyscale)
        RECURSIVE Inner(_, _, _)
        Inner(acc, j, i) ==
            IF i = 0 THEN acc
            ELSE MatAdd(D, Inner(acc, j, i - 1),
                        Lindblad3Term(D, ymat, vector, E(i - 1, j), i - 1, j))
        RECURSIVE Outer(_)
        Outer(j) == IF j = 0 THEN ZeroMat(D) ELSE Inner(Outer(j - 1), j - 1, j - 1)
    IN  IF D >= 2 /\ beta = Unset THEN Raised("AttributeError", 1)
        ELSE IF D >= 2 /\ ising.energyscale = 0
        THEN IF ZeroGap(value) THEN Warned(NanMat(D), 1, "invalid value")
             ELSE Warned(MatScale(D, CReal(gamma_arg), Outer(D)), 1, "divide by zero")
        ELSE Returned(MatScale(D, CReal(gamma_arg), Outer(D)), 1)

\* get_lindblad: the pre-computed rhoii, proj, projrho and rhoproj
LindbladPre(D, ymat, vector) ==
    [rhoii |-> [i \in Ix(D) |->
                  CSum([a \in Ix(D) |->
                           CMul(CConj(vector[a][i]),
                                CSum([b \in Ix(D) |-> CMul(ymat[a][b], vector[b][i])], D))], D)],
     proj |-> [i \in Ix(D) |-> Arr([a \in Ix(D) |-> [b \in Ix(D) |->
                  CMul(vector[a][i], CConj(vector[b][i]))]])],
     projrho |-> [i \in Ix(D) |-> Arr([a \in Ix(D) |-> [b \in Ix(D) |->
                  CMul(vector[a][i],
                       CSum([c \in Ix(D) |-> CMul(CConj(vector[c][i]), ymat[c][b])], D))]])],
     rhoproj |-> [i \in Ix(D) |-> Arr([a \in Ix(D) |-> [b \in Ix(D) |->
                  CMul(CSum([c \in Ix(D) |-> CMul(ymat[a][c], vector[c][i])], D),
                       CConj(vector[b][i]))]])]]

\* the slip of weighting proj[i] by rhoii[i] and proj[j] by rhoii[j]
MutLindbladTermSwapped(D, pre, e, i, j) ==
    MatSub(D,
        MatSub(D,
            MatScale(D, CReal(2),
                MatAdd(D, MatScale(D, pre.rhoii[i], pre.proj[i]),
                          MatScale(D, CMul(CReal(e), pre.rhoii[j]), pre.proj[j]))),
            MatAdd(D, pre.projrho[j], pre.rhoproj[j])),
        MatScale(D, CReal(e), MatAdd(D, pre.projrho[i], pre.rhoproj[i])))

\* the term a pair (i, j), i < j, adds to lindblad in get_lindblad
LindbladTerm(D, pre, e, i, j) ==
    MatSub(D,
        MatSub(D,
            MatScale(D, CReal(2),
                MatAdd(D, MatScale(D, pre.rhoii[j], pre.proj[i]),
                          MatScale(D, CMul(CReal(e), pre.rhoii[i]), pre.proj[j]))),
            MatAdd(D, pre.projrho[j], pre.rhoproj[j])),
        MatScale(D, CReal(e), MatAdd(D, pre.projrho[i], pre.rhoproj[i])))

\* get_lindblad: the optimized global dissipator
get_lindblad(ymat, gamma_arg, H, t) ==
    LET ev == eigh(H)
        value == ev.value
        vector == ev.vector
        D == Len(value)
        pre == Arr(LindbladPre(D, ymat, vector))
        E(i, j) == ExpOfQuotient(-beta[1] * (value[j + 1] - value[i + 1]), ising.energyscale)
        RECURSIVE Inner(_, _, _)
        Inner(acc, j, i) ==
            IF i = 0 THEN acc
            ELSE MatAdd(D, Inner(acc, j, i - 1), LindbladTerm(D, pre, E(i - 1, j), i - 1, j))
        RECURSIVE Outer(_)
        Outer(j) == IF j = 0 THEN ZeroMat(D) ELSE Inner(Outer(j - 1), j - 1, j - 1)
    IN  IF D >= 2 /\ beta = Unset THEN Raised("AttributeError", 1)
        ELSE IF D >= 2 /\ ising.energyscale = 0
        THEN IF ZeroGap(value) THEN Warned(NanMat(D), 1, "invalid value")
             ELSE Warned(MatScale(D, CReal(gamma_arg), Outer(D)), 1, "divide by zero")
        ELSE Returned(MatScale(D, CReal(gamma_arg), Outer(D)), 1)

Abs(x) == IF x < 0 THEN -x ELSE x

\* the slip of subtracting the projector of the other level in the first channel
MutLindblad2UpOtherProj(D, ymat, i) ==
    MatSub(D,
        MatSub(D, MatScale(D, CReal(2), MatMul(D, MatMul(D, Fockplus[i], ymat), Fockminus[i])),
                  MatMul(D, Fockproj1[i], ymat)),
        MatMul(D, ymat, Fockproj1[i]))
\* get_lindblad2, the two channels of qubit i acting on ymat
\* 2 plus ymat minus - proj0 ymat - ymat proj0
Lindblad2Up(D, ymat, i) ==
    MatSub(D,
        MatSub(D, MatScale(D, CReal(2), MatMul(D, MatMul(D, Fockplus[i], ymat), Fockminus[i])),
                  MatMul(D, Fockproj0[i], ymat)),
        MatMul(D, ymat, Fockproj0[i]))
\* 2 minus ymat plus - proj1 ymat - ymat proj1
Lindblad2Down(D, ymat, i) ==
    MatSub(D,
        MatSub(D, MatScale(D, CReal(2), MatMul(D, MatMul(D, Fockminus[i], ymat), Fockplus[i])),
                  MatMul(D, Fockproj1[i], ymat)),
        MatMul(D, ymat, Fockproj1[i]))

\* get_lindblad2, loop "for i in range(total_qubits)": lindblad after n steps
RECURSIVE Lindblad2Loop(_, _, _, _)
Lindblad2Loop(D, ymat, t, n) ==
    IF n = 0 THEN ZeroMat(D)
    ELSE LET i == n - 1
             gap == 2 * Abs(ising.hi[i])
             e == [q \in Ix(total_qubits) |-> np_exp(-beta_local[1] * AS_B(t)[q] * gap)]
             acc == Lindblad2Loop(D, ymat, t, n - 1)
         IN  IF ising.hi[i] > 0
             THEN MatAdd(D, MatAdd(D, acc, Lindblad2Up(D, ymat, i)),
                         MatScale(D, CReal(e[i]), Lindblad2Down(D, ymat, i)))
             ELSE MatAdd(D, MatAdd(D, acc, Lindblad2Down(D, ymat, i)),
                         MatScale(D, CReal(e[i]), Lindblad2Up(D, ymat, i)))

\* the slip of returning lindblad without the factor gamma
MutLindblad2NoRate(ymat, gamma_arg, H, t) ==
    IF Focksize = FocksizeNone THEN Raised("TypeError", 0)
    ELSE IF beta_local = Unset THEN Raised("AttributeError", 0)
    ELSE Returned(Lindblad2Loop(Focksize, ymat, t, total_qubits), 0)
\* get_lindblad2: the local dissipator
get_lindblad2(ymat, gamma_arg, H, t) ==
    IF Focksize = FocksizeNone THEN Raised("TypeError", 0)
    ELSE IF beta_local = Unset THEN Raised("AttributeError", 0)
    ELSE Returned(MatScale(Focksize, CReal(gamma_arg),
                           Lindblad2Loop(Focksize, ymat, t, total_qubits)), 0)

\* ------------------------------------------ specification: the dissipators
\* largest dimension of the matrices H handed to the global dissipators
MaxDim == 3

PhaseTab == << <<1, 0>>, <<0, 1>>, <<-1, 0>>, <<0, -1>> >>
\* orthonormal eigenvector matrices with integer entries: column k is a phase
\* times a basis vector
VectorSet(D) ==
    {[a \in Ix(D) |-> [k \in Ix(D) |->
         IF a = p[k] THEN PhaseTab[((k * q) % 4) + 1] ELSE CZero]] :
        p \in {[k \in Ix(D) |-> k], [k \in Ix(D) |-> D - 1 - k], [k \in Ix(D) |-> (k + 1) % D]},
        q \in {0, 1}}
\* ascending eigenvalues, without and with degenerate levels
ValueSet(D) == {[k \in 1 .. D |-> k - 1], [k \in 1 .. D |-> (k - 1) \div 2]}
\* the matrix with eigenvalues w and eigenvectors v
Recompose(D, w, v) ==
    [a \in Ix(D) |-> [b \in Ix(D) |->
        CSum([k \in Ix(D) |-> CMul(CMul(v[a][k], CReal(w[k + 1])), CConj(v[b][k]))], D)]]
LapackSet(D) ==
    {[D |-> D, H |-> Recompose(D, w, v), w |-> w, v |-> v] : w \in ValueSet(D), v \in VectorSet(D)}

\* one eigensystem of dimension D: levels 0 .. D-1 on the basis vectors
SomeLapack(D) ==
    LET w == [k \in 1 .. D |-> k - 1]
        v == [a \in Ix(D) |-> [k \in Ix(D) |-> IF a = k THEN COne ELSE CZero]]
    IN  [D |-> D, H |-> Recompose(D, w, v), w |-> w, v |-> v]

\* another one: degenerate levels on the basis vectors in reverse order, each
\* with its own phase
OtherLapack(D) ==
    LET w == [k \in 1 .. D |-> (k - 1) \div 2]
        v == [a \in Ix(D) |-> [k \in Ix(D) |->
                 IF a = D - 1 - k THEN PhaseTab[(k % 4) + 1] ELSE CZero]]
    IN  [D |-> D, H |-> Recompose(D, w, v), w |-> w, v |-> v]

\* arguments ymat: a Hermitian matrix with complex entries and a generic matrix
RhoSet(D) ==
    {[r \in Ix(D) |-> [c \in Ix(D) |-> <<r + c + 1, r - c>>]],
     [r \in Ix(D) |-> [c \in Ix(D) |-> <<r - 2 * c, r * c + 1>>]]}
Rates == {0, 2}
Betas == {<<2>>}

InitLindbladGlobal ==
    /\ total_qubits = 1
    /\ Fock = _init_Fock(total_qubits)
    /\ \E e \in {1, 2} :
           ising = [Jij |-> [i \in Ix(1) |-> [j \in Ix(1) |-> 0]],
                    hi |-> [i \in Ix(1) |-> 1], energyscale |-> e]
    /\ offset = [normalized_time |-> <<0, 1>>, Aoffset |-> 0]
    /\ AS = DefaultSched(total_qubits)
    /\ gamma = Unset
    /\ gamma_local = Unset
    /\ beta \in {Unset} \cup Betas
    /\ beta_local = Unset
    /\ Focksize = FocksizeNone
    /\ \E D \in 1 .. MaxDim : lapack \in LapackSet(D)
    /\ ret = NoCall
    /\ pure = IdlePure
    /\ runs = NoRuns
    /\ InitCached
    /\ data_set = NoData

InitLindbladLocal ==
    /\ total_qubits \in 1 .. MaxQubits
    /\ Fock = _init_Fock(total_qubits)
    /\ \E h \in {[i \in Ix(total_qubits) |-> 1],
                 [i \in Ix(total_qubits) |-> IF i = 0 THEN -1 ELSE 2],
                 [i \in Ix(total_qubits) |-> 0]} :
           ising = [Jij |-> [i \in Ix(total_qubits) |-> [j \in Ix(total_qubits) |-> 0]],
                    hi |-> h, energyscale |-> 1]
    /\ offset = [normalized_time |-> <<0, 1>>, Aoffset |-> 0]
    /\ AS = [A |-> [s \in STimes |-> [i \in Ix(total_qubits) |-> 2 - s]],
             B |-> [s \in STimes |-> [i \in Ix(total_qubits) |->
                       (IF i = 0 THEN 1 ELSE 4) * (s + 1) * (s + 1)]]]
    /\ gamma = Unset
    /\ gamma_local = Unset
    /\ beta = Unset
    /\ beta_local \in {Unset} \cup Betas
    /\ Focksize \in {FocksizeNone, FS}
    /\ lapack = NoEigh
    /\ ret = NoCall
    /\ pure = IdlePure
    /\ runs = NoRuns
    /\ InitCached
    /\ data_set = NoData

InitLindblad == InitLindbladGlobal \/ InitLindbladLocal

CallGetLindblad ==
    /\ ret = NoCall
    /\ lapack # NoEigh
    /\ \E ymat \in RhoSet(lapack.D), g \in Rates :
           ret' = [op |-> "get_lindblad", ymat |-> ymat, gamma |-> g, H |-> lapack.H,
                   t |-> 0, D |-> lapack.D, out |-> get_lindblad(ymat, g, lapack.H, 0)]
    /\ UNCHANGED <<config, fields, pure, runs>>

CallGetLindblad3 ==
    /\ ret = NoCall
    /\ lapack # NoEigh
    /\ \E ymat \in RhoSet(lapack.D), g \in Rates :
           ret' = [op |-> "get_lindblad3", ymat |-> ymat, gamma |-> g, H |-> lapack.H,
                   t |-> 0, D |-> lapack.D, out |-> get_lindblad3(ymat, g, lapack.H, 0)]
    /\ UNCHANGED <<config, fields, pure, runs>>

\* get_lindblad2 does not read its argument H
CallGetLindblad2 ==
    /\ ret = NoCall
    /\ \E ymat \in RhoSet(FS), g \in Rates, t \in STimes :
           ret' = [op |-> "get_lindblad2", ymat |-> ymat, gamma |-> g, H |-> None,
                   t |-> t, D |-> FS, out |-> get_lindblad2(ymat, g, None, t)]
    /\ UNCHANGED <<config, fields, pure, runs>>

NextLindblad == CallGetLindblad \/ CallGetLindblad3 \/ CallGetLindblad2
SpecLindblad == InitLindblad /\ [][NextLindblad]_vars

\* -------------------------------------------------------------- claims C4, C5
\* C4: on the same rho, gamma, H and t (same beta and energyscale) the optimized
\* get_lindblad returns the same matrix as the naive get_lindblad3.
C4_LindbladAgree ==
    ret.op = "get_lindblad" =>
        LET naive == get_lindblad3(ret.ymat, ret.gamma, ret.H, ret.t)
        IN  /\ ret.out.raised = naive.raised
            /\ ret.out.val = naive.val

\* a nonzero dissipator from complex eigenvectors of three levels
C4_Witness ==
    /\ ret.op = "get_lindblad"
    /\ ret.out.raised = "no"
    /\ ret.gamma # 0
    /\ ret.D >= 3
    /\ \E a \in Ix(ret.D), k \in Ix(ret.D) : lapack.v[a][k][2] # 0
    /\ lapack.w[1] # lapack.w[3]
    /\ ret.out.val # ZeroMat(ret.D)
    /\ \E r \in Ix(ret.D), c \in Ix(ret.D) : r # c /\ ret.out.val[r][c] # CZero

Dissipators == {"get_lindblad", "get_lindblad3", "get_lindblad2"}

NumEval == 100
\* largest ngrid passed to solve_pure
MaxNgrid == 3

\* Times of one solve_pure call are counted from normalized_time[0] in units of
\* (normalized_time[1] - normalized_time[0]) / ((ngrid - 1) * (NumEval - 1)),
\* in which both grids below are integers.
\* interval = np.linspace(start, end, ngrid), interval[k]
interval(ngrid, k) == k * (NumEval - 1)
\* np.linspace(*self.offset["normalized_time"], num=100), as a sequence
t_eval(ngrid) == [m \in 1 .. NumEval |-> (m - 1) * (ngrid - 1)]

\* a state vector: which sample it is (integration jj, index m; <<-1, 0>> is
\* the argument y1) and whether it has been divided by its norm
Vec(jj, m, unit) == [id |-> <<jj, m>>, unit |-> unit]
\* y1 / np.sqrt(np.absolute(y1.conj().T @ y1))
Renormalize(y) == [y EXCEPT !.unit = TRUE]

\* scipy.integrate.solve_ivp as solve_pure calls it: the results it can give.
\* It raises ValueError when a value of t_eval is outside t_span; otherwise it
\* returns the samples at t_eval, all of them with status 0, or those before
\* the step that failed with status -1 (it does not raise).
solve_ivp(jj, t_span, y0, teval) ==
    IF \E m \in 1 .. Len(teval) : teval[m] < t_span[1] \/ teval[m] > t_span[2]
    THEN {[status |-> -2, raised |-> "ValueError", t |-> << >>, y |-> << >>]}
    ELSE {[status |-> 0, raised |-> "no", t |-> teval,
           y |-> [m \in 1 .. Len(teval) |-> Vec(jj, m, FALSE)]]}
         \cup {[status |-> -1, raised |-> "no", t |-> SubSeq(teval, 1, n),
                y |-> [m \in 1 .. n |-> Vec(jj, m, FALSE)]] : n \in 0 .. (Len(teval) - 1)}

InitPure ==
    /\ total_qubits = 1
    /\ Fock = _init_Fock(total_qubits)
    /\ ising = [Jij |-> [i \in Ix(1) |-> [j \in Ix(1) |-> 0]],
                hi |-> [i \in Ix(1) |-> 1], energyscale |-> 1]
    /\ offset = [normalized_time |-> <<0, 1>>, Aoffset |-> 0]
    /\ AS = DefaultSched(total_qubits)
    /\ InitRest

\* solve_pure up to the loop: sol = PureSolutionInterface(y1)
CallSolvePure ==
    /\ pure.pc = "idle"
    /\ \E ngrid \in 1 .. MaxNgrid, unit \in BOOLEAN :
           pure' = [pc |-> "loop", ngrid |-> ngrid, jj |-> 0, y1 |-> Vec(-1, 0, unit),
                    sol |-> [t |-> << >>, y |-> << >>], calls |-> << >>, raised |-> "no"]
    /\ UNCHANGED <<config, fields, ret, runs>>

\* one pass of "for jj in range(ngrid - 1)"
SolvePureLoop ==
    /\ pure.pc = "loop"
    /\ pure.jj < pure.ngrid - 1
    /\ LET y0 == Renormalize(pure.y1)
           t_span == <<interval(pure.ngrid, pure.jj), interval(pure.ngrid, pure.jj + 1)>>
           teval == t_eval(pure.ngrid)
       IN  \E tempsol \in solve_ivp(pure.jj, t_span, y0, teval) :
               LET call == [t_span |-> t_span, y0 |-> y0, t_eval |-> teval,
                            status |-> tempsol.status, n |-> Len(tempsol.t)]
               IN  IF tempsol.raised # "no"
                   THEN pure' = [pure EXCEPT !.pc = "raised", !.raised = tempsol.raised,
                                             !.calls = Append(@, call)]
                   ELSE IF Len(tempsol.t) = 0
                   \* tempsol.y[:, tempsol.t.size - 1] of an empty result
                   THEN pure' = [pure EXCEPT !.pc = "raised", !.raised = "IndexError",
                                             !.calls = Append(@, call)]
                   ELSE pure' = [pure EXCEPT !.jj = @ + 1,
                                             !.y1 = tempsol.y[Len(tempsol.t)],
                                             !.sol = [t |-> @.t \o tempsol.t,
                                                      y |-> @.y \o tempsol.y],
                                             !.calls = Append(@, call)]
    /\ UNCHANGED <<config, fields, ret, runs>>

\* the loop is over: return sol
SolvePureReturn ==
    /\ pure.pc = "loop"
    /\ pure.jj = pure.ngrid - 1
    /\ pure' = [pure EXCEPT !.pc = "returned"]
    /\ UNCHANGED <<config, fields, ret, runs>>

NextPure == CallSolvePure \/ SolvePureLoop \/ SolvePureReturn
SpecPure == InitPure /\ [][NextPure]_vars

\* ---------------------------------------------------------- claims C6 - C8
Ended == pure.pc \in {"returned", "raised"}
Converged == \A k \in 1 .. Len(pure.calls) : pure.calls[k].status # -1

\* C6 (as stated): solve_pure with ngrid = M runs exactly M - 1 integrations,
\* over the consecutive subintervals of the grid in increasing k, each from a
\* renormalized state, and returns the concatenation of their samples. Stated
\* for the calls in which the integrator converges.
C6_Original ==
    (Ended /\ Converged) =>
        /\ pure.pc = "returned"
        /\ Len(pure.calls) = pure.ngrid - 1
        /\ \A k \in 1 .. Len(pure.calls) :
               /\ pure.calls[k].status = 0
               /\ pure.calls[k].t_span = <<interval(pure.ngrid, k - 1), interval(pure.ngrid, k)>>
               /\ pure.calls[k].y0.unit
               /\ pure.calls[k].y0.id = IF k = 1 THEN <<-1, 0>> ELSE <<k - 2, pure.calls[k - 1].n>>
        /\ Len(pure.sol.t) = (pure.ngrid - 1) * NumEval

\* C7 (as stated): every sample time requested from the integrator for
\* subinterval k lies within [interval[k], interval[k+1]].
C7_Original ==
    pure.pc # "idle" =>
        \A k \in 1 .. Len(pure.calls) :
            \A m \in 1 .. NumEval :
                /\ pure.calls[k].t_span[1] <= pure.calls[k].t_eval[m]
                /\ pure.calls[k].t_eval[m] <= pure.calls[k].t_span[2]

\* C8 (as stated): when the integrator fails on a subinterval, solve_pure does
\* not go on to return a trajectory.
C8_Original ==
    pure.pc = "returned" => Converged

\* ------------------------------------------------ the mixed-state evolver
\* the two solve_mixed calls that may be in progress on the instance
Runs == {1, 2}
\* largest number of derivative evaluations followed in one solve
MaxEvals == 2
Temps == {0, 1}

\* reading self.<name>: AttributeError when the attribute was never assigned
MutGetAttrDefaultZero(f) ==
    IF f = Unset THEN [raised |-> "no", val |-> 0] ELSE [raised |-> "no", val |-> f[1]]
GetAttr(f) ==
    IF f = Unset THEN [raised |-> "AttributeError", val |-> 0] ELSE [raised |-> "no", val |-> f[1]]

\* the rate on the instance when run r was started
MutGammaAtStart(r) == runs[r].start.gamma
\* self.gamma as the derivative of run r reads it
SelfGamma(r) == gamma
SelfGammaLocal(r) == gamma_local

\* 1 / (temp * kb / h * one), in units in which temp = 1 gives 2
BetaOf(temp) == 2 \div temp

\* what a method hands back: <<value>> when it returns, nothing when it raises
Ret(val) == [raised |-> "no", val |-> <<val>>]
Exc(e) == [raised |-> e, val |-> << >>]

\* the kinds of initial wavefunction a caller may name
DTypes == {"true", "transverse", "other"}

\* init_eigen: the eigenpair of the matrix H chosen by dtype; div is the scalar
\* the array was divided by before the eigensolve, if any
\* eigh of H / 0: H is the zero matrix, every entry of the quotient is nan, and
\* LAPACK either fails to converge (LinAlgError) or hands back nan, as the build has it
EighOfNan(H) ==
    IF lapack.nonfinite = "LinAlgError" THEN Exc("LinAlgError")
    ELSE Ret([kind |-> "true", H |-> H, div |-> <<0>>,
              eig |-> [value |-> [k \in 1 .. FS |-> "nan"], vector |-> NanMat(FS)]])

MutInitEigenDefault(dtype) ==
    IF dtype = "true"
    THEN LET H == annealingH(offset.normalized_time[1])
         IN  IF ising.energyscale = 0 THEN EighOfNan(H)
             ELSE Ret([kind |-> "true", H |-> H, div |-> <<ising.energyscale>>, eig |-> eigh(H)])
    ELSE LET H == MatScale(FS, CReal(-1),
                      _constructtransverseH([i \in Ix(total_qubits) |-> AS_A(0)[i] * 1]))
         IN  Ret([kind |-> "transverse", H |-> H, div |-> << >>, eig |-> eigh(H)])
init_eigen(dtype) ==
    IF dtype = "true"
    THEN LET H == annealingH(offset.normalized_time[1])
         IN  IF ising.energyscale = 0 THEN EighOfNan(H)
             ELSE Ret([kind |-> "true", H |-> H, div |-> <<ising.energyscale>>, eig |-> eigh(H)])
    ELSE IF dtype = "transverse"
    THEN LET H == MatScale(FS, CReal(-1),
                      _constructtransverseH([i \in Ix(total_qubits) |-> AS_A(0)[i] * 1]))
         IN  Ret([kind |-> "transverse", H |-> H, div |-> << >>, eig |-> eigh(H)])
    ELSE Exc("TypeError")

\* init_wavefunction: column 0 of the eigenvectors
init_wavefunction(dtype) ==
    LET e == init_eigen(dtype)
    IN  IF e.raised # "no" THEN Exc(e.raised)
        ELSE LET eigvector == e.val[1].eig.vector
             IN  Ret([kind |-> e.val[1].kind,
                      psi |-> [a \in Ix(FS) |-> CMul(COne, eigvector[a][0])]])

\* init_densitymatrix: the fields it assigns and what it hands back; rho is
\* kept as the unnormalized sum num and the normalization den = sum(pr)
init_densitymatrix(temp, temp_local, dtype) ==
    IF temp = 0 THEN [beta |-> beta, beta_local |-> beta_local, out |-> Exc("ZeroDivisionError")]
    ELSE IF temp_local = 0
    THEN [beta |-> <<BetaOf(temp)>>, beta_local |-> beta_local, out |-> Exc("ZeroDivisionError")]
    ELSE LET b == BetaOf(temp)
             e == init_eigen(dtype)
             out == IF e.raised # "no" THEN Exc(e.raised)
                    ELSE LET eigvalue == e.val[1].eig.value
                             eigvector == e.val[1].eig.vector
                             D == Len(eigvalue)
                             pr == [i \in Ix(D) |-> np_exp(-b * (eigvalue[i + 1] - eigvalue[1]))]
                         IN  Ret([kind |-> e.val[1].kind,
                                  num |-> [k \in Ix(D * D) |->
                                      CSum([i \in Ix(D) |->
                                          CMul(CReal(pr[i]),
                                               CMul(eigvector[k \div D][i],
                                                    CConj(eigvector[k % D][i])))], D)],
                                  den |-> CSum([i \in Ix(D) |-> CReal(pr[i])], D)[1]])
         IN  [beta |-> <<b>>, beta_local |-> <<BetaOf(temp_local)>>, out |-> out]


\* lindblad = 0 of a zero rate, and a call of get_lindblad / get_lindblad2:
\* the call reads self.beta / self.beta_local in its loop (Focksize >= 2)
Skipped == [called |-> FALSE, raised |-> "no", rate |-> 0, beta |-> 0]
DissipatorCall(rate, b) ==
    LET bb == GetAttr(b)
    IN  [called |-> TRUE, raised |-> bb.raised, rate |-> rate, beta |-> bb.val]

DerivRaised(exc) ==
    [raised |-> exc, gamma_t |-> 0, glocal_t |-> 0, lindblad |-> Skipped, lindblad_local |-> Skipped,
     unitary |-> << >>]

\* y.reshape((Focksize, Focksize)) and ymat.reshape(Focksize ** 2), row-major
Reshape2(y, D) == [a \in Ix(D) |-> [b \in Ix(D) |-> y[a * D + b]]]
Reshape1(ymat, D) == [k \in Ix(D * D) |-> ymat[k \div D][k % D]]
MinusI == <<0, -1>>
\* -1j * (H.dot(ymat) - ymat @ H)
MutCommutatorSwapped(D, H, ymat) ==
    MatScale(D, MinusI, MatSub(D, MatMul(D, ymat, H), MatMul(D, H, ymat)))
Commutator(D, H, ymat) ==
    MatScale(D, MinusI, MatSub(D, MatMul(D, H, ymat), MatMul(D, ymat, H)))

\* _apply_tdse_dense2 evaluated for run r: what f is made of, the unitary part
\* -i [H, ymat] (flattened) and the two dissipators added to it; a dissipator
\* that was skipped adds 0
_apply_tdse_dense2(r, t, y) ==
    LET ymat == Reshape2(y, Focksize)
        H == annealingH(t)
        g == GetAttr(SelfGamma(r))
    IN  IF g.raised # "no" THEN DerivRaised(g.raised)
        ELSE LET lindblad == IF g.val = 0 THEN Skipped ELSE DissipatorCall(g.val, beta)
             IN  IF lindblad.raised # "no" THEN DerivRaised(lindblad.raised)
                 ELSE LET gl == GetAttr(SelfGammaLocal(r))
                      IN  IF gl.raised # "no" THEN DerivRaised(gl.raised)
                          ELSE LET lindblad_local == IF gl.val = 0 THEN Skipped
                                                     ELSE DissipatorCall(gl.val, beta_local)
                               IN  IF lindblad_local.raised # "no"
                                   THEN DerivRaised(lindblad_local.raised)
                                   ELSE [raised |-> "no", gamma_t |-> g.val, glocal_t |-> gl.val,
                                         lindblad |-> lindblad, lindblad_local |-> lindblad_local,
                                         unitary |-> <<Arr(Reshape1(Commutator(Focksize, H, ymat),
                                                                    Focksize))>>]

\* a solve_mixed call: where it is, the rates on the instance when it was
\* called, the number n of derivative evaluations made and the last of them:
\* the rates on the instance then, the other calls in progress then, the result
NoEval == [gamma |-> Unset, gamma_local |-> Unset, among |-> {}, y |-> << >>,
           out |-> DerivRaised("no")]
\* calls counts the solve_ivp calls of the run and t_span is the interval given
\* to the last of them
IdleRun == [pc |-> "idle", start |-> [gamma |-> Unset, gamma_local |-> Unset],
            calls |-> 0, t_span |-> << >>, n |-> 0, last |-> NoEval]
\* the state y at which solve_ivp asks for the derivative the (n+1)-th time: the
\* integrator is deterministic, it starts at y0 = rho, a Hermitian matrix, and
\* goes on to states that need not be Hermitian
YAt(D, n) ==
    Arr(Reshape1(IF n = 0 THEN [r \in Ix(D) |-> [c \in Ix(D) |-> <<r + c + 1, r - c>>]]
                 ELSE [r \in Ix(D) |-> [c \in Ix(D) |-> <<r - 2 * c, r * c + n>>]], D))

InitMixed ==
    /\ total_qubits = 1
    /\ Fock = _init_Fock(total_qubits)
    /\ ising = [Jij |-> [i \in Ix(1) |-> [j \in Ix(1) |-> 0]],
                hi |-> [i \in Ix(1) |-> 1], energyscale |-> 1]
    /\ offset = [normalized_time |-> <<0, 1>>, Aoffset |-> 0]
    /\ AS = DefaultSched(total_qubits)
    /\ gamma = Unset
    /\ gamma_local = Unset
    /\ beta = Unset
    /\ beta_local = Unset
    /\ Focksize = FocksizeNone
    /\ lapack = SomeLapack(FS)
    /\ ret = NoCall
    /\ pure = IdlePure
    /\ runs = [r \in Runs |-> IdleRun]
    /\ InitCached
    /\ data_set = NoData

\* a caller sets the instance up for the solve it is about to call
Preparing == \E r \in Runs : runs[r].pc = "idle"

\* tdse.gamma = g, by a caller
SetGamma ==
    /\ Preparing
    /\ \E g \in Rates : gamma' = <<g>>
    /\ UNCHANGED <<config, gamma_local, beta, beta_local, Focksize, ret, pure, runs>>

\* tdse.gamma_local = g, by a caller
SetGammaLocal ==
    /\ Preparing
    /\ \E g \in Rates : gamma_local' = <<g>>
    /\ UNCHANGED <<config, gamma, beta, beta_local, Focksize, ret, pure, runs>>

\* init_densitymatrix(temp, temp_local, dtype)
CallInitDensitymatrix ==
    /\ Preparing
    /\ \E temp \in Temps, temp_local \in Temps, dtype \in DTypes :
           LET res == init_densitymatrix(temp, temp_local, dtype)
           IN  /\ beta' = res.beta
               /\ beta_local' = res.beta_local
               /\ ret' = [op |-> "init_densitymatrix", dtype |-> dtype, out |-> res.out]
    /\ UNCHANGED <<config, gamma, gamma_local, Focksize, pure, runs>>

\* solve_mixed(rho) up to the call of solve_ivp; the calls are numbered in the
\* order in which they are made
CallSolveMixed ==
    /\ \E r \in Runs :
           /\ runs[r].pc = "idle"
           /\ \A q \in Runs : q < r => runs[q].pc # "idle"
           /\ runs' = [runs EXCEPT ![r] = [pc |-> "running",
                           start |-> [gamma |-> gamma, gamma_local |-> gamma_local],
                           calls |-> 1, t_span |-> offset.normalized_time,
                           n |-> 0, last |-> NoEval]]
    /\ Focksize' = FS
    /\ UNCHANGED <<config, gamma, gamma_local, beta, beta_local, ret, pure>>

\* solve_ivp of run r evaluates fun = self._apply_tdse_dense2 once
Evaluate ==
    /\ \E r \in Runs :
           /\ runs[r].pc = "running"
           /\ runs[r].n < MaxEvals
           /\ \E y \in {YAt(Focksize, runs[r].n)} :
                  LET out == _apply_tdse_dense2(r, offset.normalized_time[1], y)
                      e == [gamma |-> gamma, gamma_local |-> gamma_local,
                            among |-> {q \in Runs \ {r} : runs[q].pc = "running"},
                            y |-> IF out.raised = "no" THEN <<y>> ELSE << >>, out |-> out]
                  IN  runs' = [runs EXCEPT ![r].n = @ + 1,
                                           ![r].last = e,
                                           ![r].pc = IF out.raised = "no" THEN @ ELSE "raised"]
    /\ UNCHANGED <<config, fields, ret, pure>>

\* solve_ivp of run r is done: return sol
SolveMixedReturn ==
    /\ \E r \in Runs :
           /\ runs[r].pc = "running"
           /\ runs[r].n >= 1
           /\ runs' = [runs EXCEPT ![r].pc = "returned"]
    /\ UNCHANGED <<config, fields, ret, pure>>

NextMixed ==
    \/ SetGamma
    \/ SetGammaLocal
    \/ CallInitDensitymatrix
    \/ CallSolveMixed
    \/ Evaluate
    \/ SolveMixedReturn
SpecMixed == InitMixed /\ [][NextMixed]_vars

C10_RateReadAtEvaluation ==
    \A r \in Runs :
        (runs[r].n >= 1 /\ runs[r].last.out.raised = "no") =>
            /\ <<runs[r].last.out.gamma_t>> = runs[r].last.gamma
            /\ <<runs[r].last.out.glocal_t>> = runs[r].last.gamma_local

\* while the second solve was in progress, an evaluation of the first solve
\* used the second solve's gamma, which is not the one it was called with
C10_Witness ==
    /\ runs[1].n >= 1
    /\ runs[1].last.out.raised = "no"
    /\ 2 \in runs[1].last.among
    /\ runs[1].start.gamma # Unset
    /\ runs[2].start.gamma # Unset
    /\ runs[1].start.gamma # runs[2].start.gamma
    /\ <<runs[1].last.out.gamma_t>> = runs[2].start.gamma

\* ------------------------------------- specification: the initial states
InitInit ==
    /\ total_qubits \in 1 .. MaxQubits
    /\ Fock = _init_Fock(total_qubits)
    /\ \E J \in JSetOf(total_qubits, {1}, {0}),
          h \in {[i \in Ix(total_qubits) |-> 1],
                 [i \in Ix(total_qubits) |-> IF i = 0 THEN -1 ELSE 1]},
          e \in {1, 2} :
           ising = [Jij |-> J, hi |-> h, energyscale |-> e]
    /\ offset = [normalized_time |-> <<0, 1>>, Aoffset |-> 0]
    /\ AS \in {DefaultSched(total_qubits),
                [A |-> [s \in STimes |-> [i \in Ix(total_qubits) |-> 2 - s]],
                 B |-> [s \in STimes |-> [i \in Ix(total_qubits) |->
                           (IF i = 0 THEN 1 ELSE 4) * (s + 1) * (s + 1)]]]}
    /\ gamma = Unset
    /\ gamma_local = Unset
    /\ beta = Unset
    /\ beta_local = Unset
    /\ Focksize = FocksizeNone
    /\ lapack \in {SomeLapack(FS), OtherLapack(FS)}
    /\ ret = NoCall
    /\ pure = IdlePure
    /\ runs = [r \in Runs |-> IdleRun]
    /\ InitCached
    /\ data_set = NoData

CallInitEigen ==
    /\ ret = NoCall
    /\ \E dtype \in DTypes :
           ret' = [op |-> "init_eigen", dtype |-> dtype, out |-> init_eigen(dtype)]
    /\ UNCHANGED <<config, fields, pure, runs>>

CallInitWavefunction ==
    /\ ret = NoCall
    /\ \E dtype \in DTypes :
           ret' = [op |-> "init_wavefunction", dtype |-> dtype, out |-> init_wavefunction(dtype)]
    /\ UNCHANGED <<config, fields, pure, runs>>

NextInit == CallInitEigen \/ CallInitWavefunction \/ CallInitDensitymatrix
SpecInit == InitInit /\ [][NextInit]_vars

\* ------------------------------------------------------------- claim C11
InitOps == {"init_eigen", "init_wavefunction", "init_densitymatrix"}

\* C11: init_eigen, init_wavefunction and init_densitymatrix called with a kind
\* other than "true" or "transverse" raise and hand back nothing; when they
\* return, the result is of the kind that was asked for.
C11_UnknownKindRaises ==
    ret.op \in InitOps =>
        /\ ret.dtype \notin {"true", "transverse"} =>
               (ret.out.raised # "no" /\ ret.out.val = << >>)
        /\ ret.out.raised = "no" => ret.out.val[1].kind = ret.dtype

\* init_densitymatrix has raised TypeError on an unknown kind, after beta was set
C11_Witness ==
    /\ ret.op = "init_densitymatrix"
    /\ ret.dtype = "other"
    /\ ret.out.raised = "TypeError"
    /\ ret.out.val = << >>
    /\ beta # Unset

\* ------------------------------------------ specification: the embedding
\* TDSE.pushtoFock: the same loop, from np.identity(1), over self.graph's qubits
pushtoFock(i, local) == PushLoop(i, local, total_qubits, total_qubits)

\* 2 x 2 operators handed to the embedding
Locals == {Mat2(a, b, c, d) : a \in Coefs, b \in Coefs, c \in Coefs, d \in Coefs}

InitFock ==
    /\ total_qubits \in 1 .. MaxQubits
    /\ Fock = _init_Fock(total_qubits)
    /\ ising = [Jij |-> [i \in Ix(total_qubits) |-> [j \in Ix(total_qubits) |-> 0]],
                hi |-> [i \in Ix(total_qubits) |-> 1], energyscale |-> 1]
    /\ offset = [normalized_time |-> <<0, 1>>, Aoffset |-> 0]
    /\ AS = DefaultSched(total_qubits)
    /\ InitRest

\* self.pushtoFock(i, local)
CallPushtoFock ==
    /\ ret = NoCall
    /\ \E i \in Ix(total_qubits), local \in Locals :
           ret' = [op |-> "pushtoFock", i |-> i, local |-> local, val |-> pushtoFock(i, local)]
    /\ UNCHANGED <<config, fields, pure, runs>>

\* _pushtoFock(i, local, total_qubits)
CallPushtoFockFunction ==
    /\ ret = NoCall
    /\ \E i \in Ix(total_qubits), local \in Locals :
           ret' = [op |-> "_pushtoFock", i |-> i, local |-> local,
                   val |-> _pushtoFock(i, local, total_qubits)]
    /\ UNCHANGED <<config, fields, pure, runs>>

NextFock == CallPushtoFock \/ CallPushtoFockFunction
SpecFock == InitFock /\ [][NextFock]_vars

\* ------------------------------------------------------------- claim C13
\* bit of qubit k in the row or column index r of a 2^n x 2^n matrix, qubit 0
\* being the most significant
QubitBit(r, k, n) == (r \div Pow2(n - 1 - k)) % 2
RECURSIVE CProd(_, _)
CProd(f, n) == IF n = 0 THEN COne ELSE CMul(CProd(f, n - 1), f[n - 1])
\* the Kronecker product of n factors: local at position i, ID2 elsewhere
RefEmbed(i, local, n) ==
    [r \in Ix(Pow2(n)) |-> [c \in Ix(Pow2(n)) |->
        CProd([k \in Ix(n) |->
                  (IF k = i THEN local ELSE ID2)[QubitBit(r, k, n)][QubitBit(c, k, n)]], n)]]

\* C13: every operator cached by _init_Fock is the Kronecker product with its
\* 2 x 2 operator at position i and ID2 elsewhere, qubit 0 leftmost; pushtoFock
\* and _pushtoFock return that product, the same from both.
C13_Embedding ==
    /\ \A i \in Ix(total_qubits) :
           /\ FockX[i] = RefEmbed(i, SIG_X, total_qubits)
           /\ FockZ[i] = RefEmbed(i, SIG_Z, total_qubits)
           /\ Fockproj0[i] = RefEmbed(i, PROJ_0, total_qubits)
           /\ Fockproj1[i] = RefEmbed(i, PROJ_1, total_qubits)
           /\ Fockplus[i] = RefEmbed(i, SIG_PLUS, total_qubits)
           /\ Fockminus[i] = RefEmbed(i, SIG_MINUS, total_qubits)
    /\ ret.op \in {"pushtoFock", "_pushtoFock"} =>
           /\ ret.val = RefEmbed(ret.i, ret.local, total_qubits)
           /\ pushtoFock(ret.i, ret.local) = _pushtoFock(ret.i, ret.local, total_qubits)

\* an operator that is not symmetric has been embedded at the last of several
\* qubits
C13_Witness ==
    /\ ret.op = "pushtoFock"
    /\ total_qubits >= 2
    /\ ret.i = total_qubits - 1
    /\ ret.local = SIG_PLUS
    /\ ret.val[1][0] = COne
    /\ ret.val[Pow2(total_qubits - 1)][0] = CZero

\* ------------------------------------------ specification: a single qubit
InitSingle ==
    /\ total_qubits = 1
    /\ Fock = _init_Fock(total_qubits)
    /\ \E h \in HSetOf(1, Coefs), e \in EnergyScales \cup {1} :
           ising = [Jij |-> [i \in Ix(1) |-> [j \in Ix(1) |-> 0]], hi |-> h, energyscale |-> e]
    /\ \E a \in AOffsets : offset = [normalized_time |-> <<0, 1>>, Aoffset |-> a]
    /\ AS \in SchedSet(1) \cup {DefaultSched(1)}
    /\ InitRest

NextSingle == CallConstructIsingH \/ CallAnnealingH
SpecSingle == InitSingle /\ [][NextSingle]_vars

\* ------------------------------------------------------------- claim C14
\* -(A(0) + Aoffset) X scaled by energyscale, on one qubit
PureTransverse ==
    MatScale(2, CReal(ising.energyscale),
             MatScale(2, CReal(-(AS_A(0)[0] + offset.Aoffset)), SIG_X))

\* C14 (as stated): for N = 1 and zero coupling _constructIsingH(J, h) is
\* h[0] Z, and annealingH(0) is the pure transverse term scaled by energyscale,
\* for every schedule and every h.
C14_Original ==
    /\ ret.op = "_constructIsingH" => ret.val = MatScale(2, CReal(ising.hi[0]), SIG_Z)
    /\ (ret.op = "annealingH" /\ ret.s = 0) => ret.val = PureTransverse

\* C14 (amended): for N = 1 and zero coupling _constructIsingH(J, h) is h[0] Z,
\* and annealingH(0) is energyscale times the sum of the transverse term and
\* B(0) h[0] Z: it has no Z component exactly when energyscale B(0) h[0] = 0.
C14_SingleQubit ==
    /\ ret.op = "_constructIsingH" => ret.val = MatScale(2, CReal(ising.hi[0]), SIG_Z)
    /\ (ret.op = "annealingH" /\ ret.s = 0) =>
           /\ ret.val = MatAdd(2, PureTransverse,
                  MatScale(2, CReal(ising.energyscale * AS_B(0)[0] * ising.hi[0]), SIG_Z))
           /\ (ret.val = PureTransverse) <=> (ising.energyscale * AS_B(0)[0] * ising.hi[0] = 0)

\* annealingH(0) of a schedule with B(0) # 0 has a Z component
C14_Witness ==
    /\ ret.op = "annealingH"
    /\ ret.s = 0
    /\ AS_B(0)[0] # 0
    /\ ising.hi[0] # 0
    /\ ising.energyscale # 0
    /\ ret.val[0][0] # CZero

\* ------------------------------------------------------------- hash_dict
\* A dictionary is the sequence of its items [key, val] in insertion order, the
\* keys distinct. Keys are one-letter strings; a value is an int or a str,
\* held as its characters.
MaxKeys == 3
Letters == <<"a", "b", "c", "d">>
Values == {[t |-> "int", v |-> <<"1">>], [t |-> "str", v |-> <<"x">>],
           [t |-> "str", v |-> <<"x", " ", "y">>]}
Items == {[key |-> Letters[k], val |-> v] : k \in 1 .. Len(Letters), v \in Values}
Dicts ==
    UNION {{d \in [1 .. n -> Items] : \A a \in 1 .. n, b \in 1 .. n : a # b => d[a].key # d[b].key} :
           n \in 0 .. MaxKeys}

\* position of a one-letter string in the order of str comparison
Rank(k) == CHOOSE i \in 1 .. Len(Letters) : Letters[i] = k
\* sorted(d): the keys in ascending order
RECURSIVE SortedInsert(_, _)
SortedInsert(ks, k) ==
    IF ks = << >> THEN <<k>>
    ELSE IF Rank(k) < Rank(Head(ks)) THEN <<k>> \o ks
    ELSE <<Head(ks)>> \o SortedInsert(Tail(ks), k)
RECURSIVE sorted(_)
sorted(d) == IF d = << >> THEN << >> ELSE SortedInsert(sorted(SubSeq(d, 1, Len(d) - 1)), d[Len(d)].key)
\* iterating d: the keys in insertion order
InsertionOrder(d) == [k \in 1 .. Len(d) |-> d[k].key]
\* d[key]
GetItem(d, key) == (CHOOSE k \in 1 .. Len(d) : d[k].key = key)

\* repr of a str and of a value, as characters
ReprStr(chars) == <<"'">> \o chars \o <<"'">>
Repr(val) == IF val.t = "str" THEN ReprStr(val.v) ELSE val.v
\* str of the list [[key, d[key]] for key in keys]
RECURSIVE StrItems(_, _, _)
StrItems(d, keys, n) ==
    IF n = 0 THEN << >>
    ELSE (IF n = 1 THEN << >> ELSE StrItems(d, keys, n - 1) \o <<",", " ">>)
         \o <<"[">> \o ReprStr(<<keys[n]>>) \o <<",", " ">>
         \o Repr(d[GetItem(d, keys[n])].val) \o <<"]">>
StrList(d, keys) == <<"[">> \o StrItems(d, keys, Len(keys)) \o <<"]">>
\* .replace(" ", "")
RECURSIVE RemoveSpaces(_)
RemoveSpaces(chars) ==
    IF chars = << >> THEN << >>
    ELSE (IF Head(chars) = " " THEN << >> ELSE <<Head(chars)>>) \o RemoveSpaces(Tail(chars))
\* hashlib.md5(bytes).hexdigest(): a digest that names its input
md5(bytes) == [md5 |-> bytes]

\* the slip of iterating d instead of sorted(d)
MutHashDictUnsorted(d) == md5(RemoveSpaces(StrList(d, InsertionOrder(d))))
hash_dict(d) == md5(RemoveSpaces(StrList(d, sorted(d))))

InitHash ==
    /\ total_qubits = 1
    /\ Fock = _init_Fock(total_qubits)
    /\ ising = [Jij |-> [i \in Ix(1) |-> [j \in Ix(1) |-> 0]],
                hi |-> [i \in Ix(1) |-> 1], energyscale |-> 1]
    /\ offset = [normalized_time |-> <<0, 1>>, Aoffset |-> 0]
    /\ AS = DefaultSched(total_qubits)
    /\ InitRest

\* self.hash_dict(d); the comprehension reads d and leaves it as it was
CallHashDict ==
    /\ ret = NoCall
    /\ \E d \in Dicts : ret' = [op |-> "hash_dict", d |-> d, d_after |-> d, val |-> hash_dict(d)]
    /\ UNCHANGED <<config, fields, pure, runs>>

NextHash == CallHashDict
SpecHash == InitHash /\ [][NextHash]_vars

\* ------------------------------------------------------------- claim C15
ItemSet(d) == {d[k] : k \in 1 .. Len(d)}

abc == <<"a", "b", "c", "d", "e", "f", "g", "h", "i", "j", "k", "l", "m",
         "n", "o", "p", "q", "r", "s", "t", "u", "v", "w", "x", "y", "z">>
OffsetValues == {-1, 0, 1}
\* offset lists, one offset per qubit
OffsetLists(n) == [1 .. n -> OffsetValues]

\* the loop "for offset in offsets" after n offsets; traced(x) is its test
RECURSIVE MutPartitionLoopLe(_, _)
MutPartitionLoopLe(offsets, n) ==
    IF n = 0 THEN [einidx1 |-> << >>, einidx2 |-> << >>, idx |-> 0, nA |-> 0]
    ELSE LET p == MutPartitionLoopLe(offsets, n - 1)
         IN  IF offsets[n] <= 0
             THEN [einidx1 |-> Append(p.einidx1, abc[p.idx + 1]),
                   einidx2 |-> Append(p.einidx2, abc[p.idx + 1]),
                   idx |-> p.idx + 1, nA |-> p.nA]
             ELSE [einidx1 |-> Append(p.einidx1, abc[p.idx + 1]),
                   einidx2 |-> Append(p.einidx2, abc[p.idx + 2]),
                   idx |-> p.idx + 2, nA |-> p.nA + 1]
RECURSIVE PartitionLoop(_, _)
PartitionLoop(offsets, n) ==
    IF n = 0 THEN [einidx1 |-> << >>, einidx2 |-> << >>, idx |-> 0, nA |-> 0]
    ELSE LET p == PartitionLoop(offsets, n - 1)
         IN  IF offsets[n] < 0
             THEN [einidx1 |-> Append(p.einidx1, abc[p.idx + 1]),
                   einidx2 |-> Append(p.einidx2, abc[p.idx + 1]),
                   idx |-> p.idx + 1, nA |-> p.nA]
             ELSE [einidx1 |-> Append(p.einidx1, abc[p.idx + 1]),
                   einidx2 |-> Append(p.einidx2, abc[p.idx + 2]),
                   idx |-> p.idx + 2, nA |-> p.nA + 1]

\* the loop "for idx, eidx in enumerate(einidx1)" after n letters
RECURSIVE ReducedLoop(_, _, _)
ReducedLoop(einidx1, einidx2, n) ==
    IF n = 0 THEN [ridx1 |-> << >>, ridx2 |-> << >>]
    ELSE LET p == ReducedLoop(einidx1, einidx2, n - 1)
         IN  IF einidx1[n] # einidx2[n]
             THEN [ridx1 |-> Append(p.ridx1, einidx1[n]), ridx2 |-> Append(p.ridx2, einidx2[n])]
             ELSE p

\* the offsets find_partition works on: those of self.AS, or with
\* offset_min = 0 those of the schedule it builds for the purpose (synthetic)
OffsetsUsed(synthetic) == IF offset.offset_min = 0 THEN synthetic ELSE AS.offset_list
\* letters the loop asks of abc
LettersNeeded(offsets) == Len(offsets) + Cardinality({k \in 1 .. Len(offsets) : ~(offsets[k] < 0)})

MutFindPartitionLe(synthetic) ==
    LET offsets == OffsetsUsed(synthetic)
        p == MutPartitionLoopLe(offsets, Len(offsets))
        r == ReducedLoop(p.einidx1, p.einidx2, Len(p.einidx1))
    IN  Ret([nA |-> p.nA,
             esum |-> p.einidx1 \o p.einidx2 \o <<"-", ">">> \o r.ridx1 \o r.ridx2])
find_partition(synthetic) ==
    LET offsets == OffsetsUsed(synthetic)
    IN  IF LettersNeeded(offsets) > Len(abc) THEN Exc("IndexError")
        ELSE LET p == PartitionLoop(offsets, Len(offsets))
                 r == ReducedLoop(p.einidx1, p.einidx2, Len(p.einidx1))
             IN  Ret([nA |-> p.nA,
                      esum |-> p.einidx1 \o p.einidx2 \o <<"-", ">">> \o r.ridx1 \o r.ridx2])

InitPartition ==
    /\ total_qubits \in 1 .. MaxQubits
    /\ Fock = _init_Fock(total_qubits)
    /\ ising = [Jij |-> [i \in Ix(total_qubits) |-> [j \in Ix(total_qubits) |-> 0]],
                hi |-> [i \in Ix(total_qubits) |-> 1], energyscale |-> 1]
    /\ \E m \in {-1, 0} : offset = [normalized_time |-> <<0, 1>>, Aoffset |-> 0, offset_min |-> m]
    /\ \E ol \in OffsetLists(total_qubits) :
           AS = [A |-> DefaultSched(total_qubits).A, B |-> DefaultSched(total_qubits).B,
                 offset_list |-> ol]
    /\ InitRest

CallFindPartition ==
    /\ ret = NoCall
    /\ \E synthetic \in OffsetLists(total_qubits) :
           /\ offset.offset_min # 0 => synthetic = AS.offset_list
           /\ ret' = [op |-> "find_partition", offsets |-> OffsetsUsed(synthetic),
                      out |-> find_partition(synthetic)]
    /\ UNCHANGED <<config, fields, pure, runs>>

NextPartition == CallFindPartition
SpecPartition == InitPartition /\ [][NextPartition]_vars

\* ------------------------------------------------------------- claim C16
\* the letters of keys at the qubits that are kept, in qubit order
RECURSIVE KeptLetters(_, _, _)
KeptLetters(letters, offsets, n) ==
    IF n = 0 THEN << >>
    ELSE KeptLetters(letters, offsets, n - 1)
         \o (IF offsets[n] < 0 THEN << >> ELSE <<letters[n]>>)

\* C16: nA is the number of offsets that are not negative; in the pattern the
\* row and the column letter of qubit k are the same exactly when offset[k] < 0
\* and all other letters differ; the output is the kept row letters followed by
\* the kept column letters, 2 nA letters.
C16_Partition ==
    ret.op = "find_partition" =>
        LET o == ret.offsets
            n == Len(o)
            esum == ret.out.val[1].esum
            nA == ret.out.val[1].nA
            row == SubSeq(esum, 1, n)
            col == SubSeq(esum, n + 1, 2 * n)
            ridx == SubSeq(esum, 2 * n + 3, Len(esum))
            both == row \o col
        IN  /\ ret.out.raised = "no"
            /\ nA = Cardinality({k \in 1 .. n : ~(o[k] < 0)})
            /\ \A k \in 1 .. n : (row[k] = col[k]) <=> (o[k] < 0)
            /\ \A a \in 1 .. 2 * n, b \in 1 .. 2 * n :
                   (a < b /\ both[a] = both[b]) => (b = a + n /\ o[a] < 0)
            /\ SubSeq(esum, 2 * n + 1, 2 * n + 2) = <<"-", ">">>
            /\ ridx = KeptLetters(row, o, n) \o KeptLetters(col, o, n)
            /\ Len(ridx) = 2 * nA

\* a partition of several qubits, one traced out and one with offset 0 kept
C16_Witness ==
    /\ ret.op = "find_partition"
    /\ Len(ret.offsets) >= 2
    /\ ret.offsets[1] < 0
    /\ ret.offsets[2] = 0
    /\ ret.out.val[1].nA >= 1
    /\ SubSeq(ret.out.val[1].esum, 1, 2) = <<"a", "b">>

\* --------------------------------------------------- ground_state_degeneracy
\* degeneracy_tol on the integer levels of the model: 0 stands for a tolerance
\* below the level spacing
Tolerances == {0, 1}

\* the mask is commented out and gs_idx is the literal [0, 1]
ground_state_degeneracy(H, degeneracy_tol) ==
    LET eigval == eigh(H).value
        eigv == eigh(H).vector
        gs_idx == <<0, 1>>
    IN  [gs_idx |-> gs_idx, eigval |-> eigval, eigv |-> eigv]

CallGroundStateDegeneracy ==
    /\ ret = NoCall
    /\ lapack # NoEigh
    /\ \E tol \in Tolerances :
           ret' = [op |-> "ground_state_degeneracy", H |-> lapack.H, D |-> lapack.D,
                   degeneracy_tol |-> tol, out |-> ground_state_degeneracy(lapack.H, tol)]
    /\ UNCHANGED <<config, fields, pure, runs>>

NextDegeneracy == CallGroundStateDegeneracy
SpecDegeneracy == InitLindbladGlobal /\ [][NextDegeneracy]_vars

\* ------------------------------------------------------------- claim C17
\* C17: the ground-state ids returned are exactly the indices of the
\* eigenvalues within degeneracy_tol of the smallest one, and all eigenvalues
\* and eigenvectors come with them.
C17_Original ==
    ret.op = "ground_state_degeneracy" =>
        /\ {ret.out.gs_idx[k] : k \in 1 .. Len(ret.out.gs_idx)}
               = {k \in Ix(ret.D) :
                      Abs(ret.out.eigval[k + 1] - ret.out.eigval[1]) <= ret.degeneracy_tol}
        /\ ret.out.eigval = lapack.w
        /\ ret.out.eigv = lapack.v

\* ------------------------------------------ DWaveExperiment.get_summary
MaxRows == 3
MaxEntries == 2
Energies == {1, 2, 3}
\* the columns of a Data row that get_summary reads
RowSet == [energy : Energies, constraint_satisfaction : BOOLEAN, chain_break_fraction : {0, 1}]
\* the Data table of the experiment, one row per measurement
Tables == UNION {[1 .. k -> RowSet] : k \in 0 .. MaxRows}

\* .filter(constraint_satisfaction=True, experiment_ptr__dwaveexperiment__isnull=False):
\* every row of self.data_set belongs to this DWave experiment
Satisfied(row) == row.constraint_satisfaction
MutFilterAll(rows) == rows
filter(rows) == SelectSeq(rows, Satisfied)

RECURSIVE SumOf(_, _)
SumOf(rows, n) == IF n = 0 THEN 0 ELSE SumOf(rows, n - 1) + rows[n].chain_break_fraction
SameEnergy(rows, e) == {k \in 1 .. Len(rows) : rows[k].energy = e}
\* .values("energy").annotate(occurances=Count("energy"), chain_break_fraction=Avg(...)):
\* one group per energy; the average is kept as <<sum, count>>
annotate(rows) ==
    {[energy |-> e,
      occurances |-> Cardinality(SameEnergy(rows, e)),
      chain_break_fraction |->
          <<SumOf([k \in 1 .. Len(rows) |->
                      IF rows[k].energy = e THEN rows[k] ELSE [rows[k] EXCEPT !.chain_break_fraction = 0]],
                  Len(rows)),
            Cardinality(SameEnergy(rows, e))>>] :
        e \in {rows[k].energy : k \in 1 .. Len(rows)}}
\* the query has no ORDER BY: the database hands the groups back in any order
QueryOrders(groups) ==
    {q \in [1 .. Cardinality(groups) -> groups] : \A a, b \in DOMAIN q : a # b => q[a] # q[b]}
\* queryset[:n_entries], a LIMIT
Slice(q, n_entries) == SubSeq(q, 1, IF n_entries < Len(q) THEN n_entries ELSE Len(q))

\* sorted(list, key=lambda el: el["energy"]): stable, ascending
RECURSIVE InsertByEnergy(_, _)
InsertByEnergy(sq, el) ==
    IF sq = << >> THEN <<el>>
    ELSE IF sq[Len(sq)].energy <= el.energy THEN Append(sq, el)
    ELSE Append(InsertByEnergy(SubSeq(sq, 1, Len(sq) - 1), el), sq[Len(sq)])
RECURSIVE sorted_by_energy(_)
sorted_by_energy(sq) ==
    IF sq = << >> THEN << >>
    ELSE InsertByEnergy(sorted_by_energy(SubSeq(sq, 1, Len(sq) - 1)), sq[Len(sq)])

\* get_summary(n_entries), q being the order in which the database answers;
\* a negative n_entries is refused by the queryset ("Negative indexing is not supported.")
get_summary(n_entries, q) ==
    IF n_entries < 0 THEN Exc("NegativeIndexing")
    ELSE Ret(sorted_by_energy(Slice(q, n_entries)))

InitSummary ==
    /\ total_qubits = 1
    /\ Fock = _init_Fock(total_qubits)
    /\ ising = [Jij |-> [i \in Ix(1) |-> [j \in Ix(1) |-> 0]],
                hi |-> [i \in Ix(1) |-> 1], energyscale |-> 1]
    /\ offset = [normalized_time |-> <<0, 1>>, Aoffset |-> 0]
    /\ AS = DefaultSched(total_qubits)
    /\ gamma = Unset
    /\ gamma_local = Unset
    /\ beta = Unset
    /\ beta_local = Unset
    /\ Focksize = FocksizeNone
    /\ lapack = NoEigh
    /\ ret = NoCall
    /\ pure = IdlePure
    /\ runs = NoRuns
    /\ InitCached
    /\ data_set \in Tables

CallGetSummary ==
    /\ ret = NoCall
    /\ \E n_entries \in -1 .. MaxEntries, q \in QueryOrders(annotate(filter(data_set))) :
           ret' = [op |-> "get_summary", n_entries |-> n_entries,
                   out |-> get_summary(n_entries, q)]
    /\ UNCHANGED <<config, fields, pure, runs>>

NextSummary == CallGetSummary
SpecSummary == InitSummary /\ [][NextSummary]_vars

\* ------------------------------------------------------------- claim C18
SatisfyingRows == {k \in 1 .. Len(data_set) : data_set[k].constraint_satisfaction}
RefUnitary(D, H, y) ==
    [k \in Ix(D * D) |->
        CMul(MinusI,
             CSum([m \in Ix(D) |->
                      CSub(CMul(H[k \div D][m], y[m * D + (k % D)]),
                           CMul(y[(k \div D) * D + m], H[m][k % D]))], D))]

\* C19: at a derivative evaluation of solve_mixed get_lindblad is called exactly
\* when gamma is not 0 and get_lindblad2 exactly when gamma_local is not 0; with
\* both rates 0 the derivative is -i (H rho - rho H) as a vector of length
\* Focksize^2; solve_mixed makes one solve_ivp call over the whole interval.
C19_ZeroRateDisables ==
    \A r \in Runs :
        /\ runs[r].pc # "idle" =>
               (runs[r].calls = 1 /\ runs[r].t_span = offset.normalized_time)
        /\ (runs[r].n >= 1 /\ runs[r].last.out.raised = "no") =>
               LET e == runs[r].last
               IN  /\ e.out.lindblad.called <=> e.gamma # <<0>>
                   /\ e.out.lindblad_local.called <=> e.gamma_local # <<0>>
                   /\ (e.gamma = <<0>> /\ e.gamma_local = <<0>>) =>
                          /\ e.out.lindblad = Skipped
                          /\ e.out.lindblad_local = Skipped
                          /\ DOMAIN e.out.unitary[1] = Ix(Focksize * Focksize)
                          /\ e.out.unitary[1]
                                 = RefUnitary(Focksize, annealingH(offset.normalized_time[1]), e.y[1])

\* one solve evaluated with both rates 0, its derivative not zero, and another
\* evaluated with both dissipators called
C19_Witness ==
    \E r \in Runs, q \in Runs :
        /\ runs[r].n >= 1
        /\ runs[r].last.out.raised = "no"
        /\ runs[r].last.gamma = <<0>>
        /\ runs[r].last.gamma_local = <<0>>
        /\ \E k \in Ix(Focksize * Focksize) : runs[r].last.out.unitary[1][k] # CZero
        /\ runs[q].n >= 1
        /\ runs[q].last.out.raised = "no"
        /\ runs[q].last.out.lindblad.called
        /\ runs[q].last.out.lindblad_local.called

\* --------------------------------------------- specification: energyscale
InitScale ==
    /\ total_qubits \in 1 .. MaxQubits
    /\ Fock = _init_Fock(total_qubits)
    /\ \E h \in {[i \in Ix(total_qubits) |-> 1],
                 [i \in Ix(total_qubits) |-> IF i = 0 THEN -1 ELSE 1]},
          e \in {0, 1} :
           ising = [Jij |-> [i \in Ix(total_qubits) |-> [j \in Ix(total_qubits) |->
                               IF i < j THEN 1 ELSE 0]],
                    hi |-> h, energyscale |-> e]
    /\ offset = [normalized_time |-> <<0, 1>>, Aoffset |-> 0]
    /\ AS \in {DefaultSched(total_qubits),
                [A |-> [s \in STimes |-> [i \in Ix(total_qubits) |-> 2 - s]],
                 B |-> [s \in STimes |-> [i \in Ix(total_qubits) |->
                           (IF i = 0 THEN 1 ELSE 4) * (s + 1) * (s + 1)]]]}
    /\ gamma = Unset
    /\ gamma_local = Unset
    /\ beta \in {Unset} \cup Betas
    /\ beta_local = Unset
    /\ Focksize = FocksizeNone
    /\ \E l \in {SomeLapack(FS), OtherLapack(FS)}, nf \in {"LinAlgError", "nan"} :
           lapack = [D |-> l.D, H |-> l.H, w |-> l.w, v |-> l.v, nonfinite |-> nf]
    /\ ret = NoCall
    /\ pure = IdlePure
    /\ runs = NoRuns
    /\ InitCached
    /\ data_set = NoData

NextScale == CallAnnealingH \/ CallInitEigen \/ CallGetLindblad \/ CallGetLindblad3
SpecScale == InitScale /\ [][NextScale]_vars

\* ------------------------------------------------------------- claim C20
\* C20: no operation divides by energyscale; with energyscale = 0 annealingH(s)
\* is the zero matrix, and init_eigen("true"), get_lindblad and get_lindblad3
\* complete without a division by zero.
C20_Original ==
    ising.energyscale = 0 =>
        /\ ret.op = "annealingH" => ret.val = ZeroMat(FS)
        /\ (ret.op = "init_eigen" /\ ret.dtype = "true") =>
               (ret.out.raised = "no" /\ ret.out.val[1].div # <<0>>)
        /\ (ret.op \in {"get_lindblad", "get_lindblad3"} /\ ret.out.raised = "no") =>
               "warning" \notin DOMAIN ret.out

\* ------------------------------------------- correlators and entropies
\* sol_densitymatrix.y[:, ti].reshape(2 ** N, 2 ** N)
SampleAt(sol, ti) == Reshape2(sol.y[ti], FS)
cZ(ti, xi, sol_densitymatrix) ==
    Trace(FS, MatMul(FS, FockZ[xi], SampleAt(sol_densitymatrix, ti)))
c0(ti, xi, sol_densitymatrix) ==
    Trace(FS, MatMul(FS, Fockproj0[xi], SampleAt(sol_densitymatrix, ti)))
c1(ti, xi, sol_densitymatrix) ==
    Trace(FS, MatMul(FS, Fockproj1[xi], SampleAt(sol_densitymatrix, ti)))
cZZ(ti, xi, xj, sol_densitymatrix) ==
    Trace(FS, MatMul(FS, FockZZ[xi][xj], SampleAt(sol_densitymatrix, ti)))
cZZd(ti, xi, xj, sol_densitymatrix) ==
    CSub(cZZ(ti, xi, xj, sol_densitymatrix),
         CMul(cZ(ti, xi, sol_densitymatrix), cZ(ti, xj, sol_densitymatrix)))
cZZt2(ti, xi, sol_densitymatrixt2) ==
    Trace(FS, MatMul(FS, FockZ[xi], SampleAt(sol_densitymatrixt2, ti)))
cZZt2d(ti, xi, tj, xj, sol_densitymatrix, sol_densitymatrixt2) ==
    CSub(Trace(FS, MatMul(FS, FockZ[xi], SampleAt(sol_densitymatrixt2, ti))),
         CMul(cZ(ti, xi, sol_densitymatrix), cZ(tj, xj, sol_densitymatrix)))

\* the entropies go through np.einsum and scipy's logm: their value is kept as
\* the expression it is, -trace(m log m) / log 2 of the matrix m named
ent_entropy(rho, nA, indicesA, reg) ==
    Ret([entropy_of |-> "rhoA", rho |-> rho, nA |-> nA, indicesA |-> indicesA, reg |-> reg])
vonNeumann_entropy(rho, reg) ==
    Ret([entropy_of |-> "rho", rho |-> rho, nA |-> total_qubits, indicesA |-> << >>, reg |-> reg])
\* q_mutual_info calls ent_entropy, a name that is not defined in the module
q_mutual_info(rho, nA, nB, indicesA, indicesB, reg) == Exc("NameError")

\* two trajectories of solve_mixed, two samples each
SampleTimes == {0, 1}
Sol1 == [y |-> [ti \in SampleTimes |-> YAt(FS, ti)]]
Sol2 == [y |-> [ti \in SampleTimes |-> YAt(FS, ti + 1)]]
Correlators == {"cZ", "c0", "c1", "cZZ", "cZZd", "cZZt2", "cZZt2d"}
Entropies == {"ent_entropy", "vonNeumann_entropy", "q_mutual_info"}

CallCorrelator ==
    /\ ret = NoCall
    /\ \E name \in Correlators, ti \in SampleTimes, xi \in Ix(total_qubits),
          xj \in Ix(total_qubits) :
           ret' = [op |-> name, ti |-> ti, xi |-> xi, xj |-> xj,
                   val |-> CASE name = "cZ" -> cZ(ti, xi, Sol1)
                             [] name = "c0" -> c0(ti, xi, Sol1)
                             [] name = "c1" -> c1(ti, xi, Sol1)
                             [] name = "cZZ" -> cZZ(ti, xi, xj, Sol1)
                             [] name = "cZZd" -> cZZd(ti, xi, xj, Sol1)
                             [] name = "cZZt2" -> cZZt2(ti, xi, Sol2)
                             [] name = "cZZt2d" -> cZZt2d(ti, xi, ti, xj, Sol1, Sol2)]
    /\ UNCHANGED <<config, fields, pure, runs>>

CallEntropy ==
    /\ ret = NoCall
    /\ \E name \in Entropies, ti \in SampleTimes :
           LET part == find_partition(AS.offset_list).val[1]
               rho == Sol1.y[ti]
           IN  ret' = [op |-> name, ti |-> ti,
                       out |-> CASE name = "ent_entropy" -> ent_entropy(rho, part.nA, part.esum, 0)
                                 [] name = "vonNeumann_entropy" -> vonNeumann_entropy(rho, 0)
                                 [] name = "q_mutual_info" ->
                                        q_mutual_info(rho, part.nA, part.nA, part.esum, part.esum, 0)]
    /\ UNCHANGED <<config, fields, pure, runs>>

\* --------------------------------------- specification: sequences of calls
\* no call is in progress
Quiet ==
    /\ ret = NoCall
    /\ pure.pc = "idle"
    /\ \A r \in Runs : runs[r].pc = "idle"

\* the caller is done with the results it holds and goes on to other calls
Discard ==
    /\ ~Quiet
    /\ pure.pc \in {"idle", "returned", "raised"}
    /\ \A r \in Runs : runs[r].pc \in {"idle", "returned", "raised"}
    /\ ret' = NoCall
    /\ pure' = IdlePure
    /\ runs' = [r \in Runs |-> IdleRun]
    /\ UNCHANGED <<config, fields>>

InitFrame ==
    /\ total_qubits = 2
    /\ Fock = _init_Fock(total_qubits)
    /\ ising = [Jij |-> [i \in Ix(total_qubits) |-> [j \in Ix(total_qubits) |->
                           IF i < j THEN 1 ELSE 0]],
                hi |-> [i \in Ix(total_qubits) |-> IF i = 0 THEN -1 ELSE 1],
                energyscale |-> 1]
    /\ \E m \in {-1, 0} :
           /\ offset = [normalized_time |-> <<0, 1>>, Aoffset |-> 0, offset_min |-> m]
           /\ AS = [A |-> [s \in STimes |-> [i \in Ix(total_qubits) |-> 2 - s]],
                   B |-> [s \in STimes |-> [i \in Ix(total_qubits) |->
                             (IF i = 0 THEN 1 ELSE 4) * (s + 1) * (s + 1)]],
                   offset_list |-> [i \in 1 .. total_qubits |-> IF i = 1 THEN m ELSE 1]]
    /\ gamma = Unset
    /\ gamma_local = Unset
    /\ beta = Unset
    /\ beta_local = Unset
    /\ Focksize = FocksizeNone
    /\ lapack = SomeLapack(FS)
    /\ ret = NoCall
    /\ pure = IdlePure
    /\ runs = [r \in Runs |-> IdleRun]
    /\ InitCached
    /\ data_set = NoData

NextFrame ==
    \/ (Quiet /\ SetGamma)
    \/ (Quiet /\ SetGammaLocal)
    \/ (Quiet /\ CallAnnealingH)
    \/ (Quiet /\ CallInitEigen)
    \/ (Quiet /\ CallInitDensitymatrix)
    \/ (Quiet /\ CallSolvePure)
    \/ SolvePureLoop
    \/ SolvePureReturn
    \/ (Quiet /\ CallSolveMixed)
    \/ Evaluate
    \/ SolveMixedReturn
    \/ (Quiet /\ CallGetLindblad)
    \/ (Quiet /\ CallGetLindblad2)
    \/ (Quiet /\ CallGetLindblad3)
    \/ (Quiet /\ CallCorrelator)
    \/ (Quiet /\ CallEntropy)
    \/ (Quiet /\ CallFindPartition)
    \/ Discard
SpecFrame == InitFrame /\ [][NextFrame]_vars

\* ------------------------------------------------------------- claim C12
\* C12: no call of annealingH, init_eigen, init_densitymatrix, solve_pure,
\* solve_mixed, a dissipator, a correlator, an entropy function or
\* find_partition changes a cached operator: FockX, FockZ, FockZZ, Fockproj0,
\* Fockproj1, Fockplus, Fockminus, IsingH and IsingH_exact stay what __init__
\* made them.
C12_CachedOperatorsKept == [][UNCHANGED <<Fock, IsingH, IsingH_exact>>]_vars

\* init_densitymatrix and solve_mixed have been called, their results put
\* aside, and a Hamiltonian other than the cached ones has just been assembled
C12_Witness ==
    /\ beta # Unset
    /\ Focksize # FocksizeNone
    /\ ret.op = "annealingH"
    /\ ret.val # IsingH
    /\ ret.val # IsingH_exact
    /\ IsingH # IsingH_exact

\* ------------------------------------------------------------- claim C21
\* sa + sb - sab of three entropies, kept as the expression it is
MutualInfoOf(sa, sb, sab) == [plus |-> <<sa, sb>>, minus |-> sab]

\* C21: q_mutual_info(rho, nA, nB, indicesA, indicesB, reg) returns
\* S_A + S_B - S_AB, where S_A and S_B are what ent_entropy gives for the two
\* partitions and S_AB is what vonNeumann_entropy gives for rho.
C21_Original ==
    (ret.op = "q_mutual_info") =>
        LET part == find_partition(AS.offset_list).val[1]
            rho == Sol1.y[ret.ti]
            sa == ent_entropy(rho, part.nA, part.esum, 0).val[1]
            sb == ent_entropy(rho, part.nA, part.esum, 0).val[1]
            sab == vonNeumann_entropy(rho, 0).val[1]
        IN  /\ ret.out.raised = "no"
            /\ ret.out.val = <<MutualInfoOf(sa, sb, sab)>>

\* ------------------------------------- specification: trace of the derivative
\* _apply_tdse_dense2, lines 519-522: f = -1j (H ymat - ymat H) + lindblad +
\* lindblad_local, flattened; a dissipator that was skipped adds the scalar 0
_apply_tdse_dense2_f(out, t, y) ==
    LET ymat == Reshape2(y, Focksize)
        H == annealingH(t)
        lindblad == IF out.lindblad.called
                    THEN get_lindblad(ymat, out.gamma_t, H, t).val
                    ELSE ZeroMat(Focksize)
        lindblad_local == IF out.lindblad_local.called
                          THEN get_lindblad2(ymat, out.glocal_t, H, t).val
                          ELSE ZeroMat(Focksize)
    IN  Arr(Reshape1(MatAdd(Focksize,
                            MatAdd(Focksize, Reshape2(out.unitary[1], Focksize), lindblad),
                            lindblad_local), Focksize))

\* the eigensystems eigh may return for a matrix of dimension D: every one of
\* LapackSet for the dimensions next to MaxDim, two of them for larger ones
TraceLapack(D) ==
    IF D <= MaxDim + 1 THEN LapackSet(D) ELSE {SomeLapack(D), OtherLapack(D)}

\* an instance on which a caller has assigned the rates, init_densitymatrix has
\* set the inverse temperatures and solve_mixed has set Focksize
InitTrace ==
    /\ total_qubits \in 1 .. MaxQubits
    /\ Fock = _init_Fock(total_qubits)
    /\ \E e \in {1, 2} :
           ising = [Jij |-> [i \in Ix(total_qubits) |-> [j \in Ix(total_qubits) |->
                               IF i < j THEN 1 ELSE 0]],
                    hi |-> [i \in Ix(total_qubits) |->
                              IF e = 1 THEN 1 ELSE IF i = 0 THEN -1 ELSE 2],
                    energyscale |-> e]
    /\ offset = [normalized_time |-> <<0, 1>>, Aoffset |-> 0]
    /\ AS = [A |-> [s \in STimes |-> [i \in Ix(total_qubits) |-> 2 - s]],
             B |-> [s \in STimes |-> [i \in Ix(total_qubits) |->
                       (IF i = 0 THEN 1 ELSE 4) * (s + 1) * (s + 1)]]]
    /\ gamma \in {<<g>> : g \in Rates}
    /\ gamma_local \in {<<g>> : g \in Rates}
    /\ beta \in Betas
    /\ beta_local \in Betas
    /\ Focksize = FS
    /\ lapack \in TraceLapack(FS)
    /\ ret = NoCall
    /\ pure = IdlePure
    /\ runs = NoRuns
    /\ InitCached
    /\ data_set = NoData

\* solve_ivp evaluates fun = self._apply_tdse_dense2 at (t, y)
CallApplyTdseDense2 ==
    /\ ret = NoCall
    /\ \E ymat \in RhoSet(FS), t \in STimes :
           LET y == Arr(Reshape1(ymat, FS))
               out == _apply_tdse_dense2(1, t, y)
           IN  ret' = [op |-> "_apply_tdse_dense2", t |-> t, y |-> y, out |-> out,
                       f |-> IF out.raised = "no" THEN <<_apply_tdse_dense2_f(out, t, y)>>
                             ELSE << >>]
    /\ UNCHANGED <<config, fields, pure, runs>>

NextTrace ==
    \/ CallGetLindblad
    \/ CallGetLindblad3
    \/ CallGetLindblad2
    \/ CallApplyTdseDense2
SpecTrace == InitTrace /\ [][NextTrace]_vars

\* ------------------------------------------------------------- claim C22
\* C22: the matrices returned by get_lindblad, get_lindblad3 and get_lindblad2
\* have trace zero, for every rho, H and rate, and so has the derivative that
\* _apply_tdse_dense2 computes from the commutator and both dissipators: the
\* evolution equation keeps trace(rho).
C22_TraceZero ==
    /\ (ret.op \in Dissipators /\ ret.out.raised = "no") =>
           Trace(ret.D, ret.out.val) = CZero
    /\ (ret.op = "_apply_tdse_dense2" /\ ret.out.raised = "no") =>
           Trace(FS, Reshape2(ret.f[1], FS)) = CZero

\* a derivative of two qubits to which both dissipators, with nonzero rates,
\* have added matrices that are not zero, computed from complex eigenvectors
C22_Witness ==
    /\ ret.op = "_apply_tdse_dense2"
    /\ ret.out.raised = "no"
    /\ total_qubits >= 2
    /\ ret.out.lindblad.called
    /\ ret.out.lindblad_local.called
    /\ \E a \in Ix(FS), k \in Ix(FS) : lapack.v[a][k][2] # 0
    /\ LET ymat == Reshape2(ret.y, FS)
       IN  /\ get_lindblad(ymat, gamma[1], annealingH(ret.t), ret.t).val # ZeroMat(FS)
           /\ get_lindblad2(ymat, gamma_local[1], annealingH(ret.t), ret.t).val # ZeroMat(FS)
           /\ Trace(FS, ymat) # CZero
    /\ ret.f[1] # ret.out.unitary[1]

\* ------------------------------------------------------------ add_jchaos
\* random.normalvariate(0, sigma) is sigma times a standard normal draw z
Draws == {-1, 0, 1}
rnormal(mu, sigma, z) == mu + sigma * z
\* values of the argument jchaos
Chaos == {1, 2}

\* the loops over Jij: every entry is read once and, unless it is 0, gets
\* rnormal(0, jchaos * Jij[i, j]) added; drawn holds the entries that did
JLoops(Jij, N, jchaos, zJ) ==
    [Jij |-> [i \in Ix(N) |-> [j \in Ix(N) |->
                 IF Jij[i][j] = 0 THEN Jij[i][j]
                 ELSE Jij[i][j] + rnormal(0, jchaos * Jij[i][j], zJ[i][j])]],
     drawn |-> {ij \in Ix(N) \X Ix(N) : Jij[ij[1]][ij[2]] # 0},
     \* the loop variable j after the loops: the last column
     j |-> N - 1]

\* the loop "for i, h in enumerate(hi)" after n steps; its test reads hi[j],
\* with the j the loops over Jij left behind
RECURSIVE HiLoop(_, _, _, _, _)
HiLoop(hi, j, jchaos, zh, n) ==
    IF n = 0 THEN [hi |-> hi, drawn |-> {}]
    ELSE LET p == HiLoop(hi, j, jchaos, zh, n - 1)
             i == n - 1
         IN  IF p.hi[j] = 0 THEN p
             ELSE [hi |-> [p.hi EXCEPT ![i] = @ + rnormal(0, jchaos, zh[i])],
                   drawn |-> p.drawn \cup {i}]

\* add_jchaos(Jij_exact, hi_exact, jchaos) on N qubits: np.array copies its
\* argument, the loops work on the copies
add_jchaos(Jij_exact, hi_exact, jchaos, N, zJ, zh) ==
    LET J == JLoops(Jij_exact, N, jchaos, zJ)
        h == HiLoop(hi_exact, J.j, jchaos, zh, N)
    IN  [Jij |-> J.Jij, hi |-> h.hi, drawn_J |-> J.drawn, drawn_h |-> h.drawn,
         Jij_exact |-> Jij_exact, hi_exact |-> hi_exact]

InitChaos == InitHash

\* the couplings handed in: the upper triangle all 0, all 1, or 1 and -1 in turn
ChaosJ(N) ==
    {[i \in Ix(N) |-> [j \in Ix(N) |-> IF i < j THEN c * (IF (i + j) % 2 = 1 THEN 1 ELSE d) ELSE 0]] :
        c \in {0, 1}, d \in {-1, 1}}

CallAddJchaos ==
    /\ ret = NoCall
    /\ \E N \in 1 .. MaxQubits :
           \E Jij_exact \in ChaosJ(N), hi_exact \in [Ix(N) -> Coefs], jchaos \in Chaos,
              z \in Draws \ {0}, zh \in [Ix(N) -> Draws] :
               ret' = [op |-> "add_jchaos", N |-> N, Jij_exact |-> Jij_exact,
                       hi_exact |-> hi_exact, jchaos |-> jchaos,
                       out |-> add_jchaos(Jij_exact, hi_exact, jchaos, N,
                                          [i \in Ix(N) |-> [j \in Ix(N) |-> z]], zh)]
    /\ UNCHANGED <<config, fields, pure, runs>>

NextChaos == CallAddJchaos
SpecChaos == InitChaos /\ [][NextChaos]_vars

\* ------------------------------------------------------------- claim C23
\* C23: add_jchaos perturbs only nonzero parameters: every entry of Jij_exact
\* that is 0 is 0 in the returned Jij, every entry of hi_exact that is 0 is 0 in
\* the returned hi, every nonzero entry of hi_exact receives a noise term, and
\* Jij_exact and hi_exact are not modified.
C23_Original ==
    ret.op = "add_jchaos" =>
        /\ \A i \in Ix(ret.N), j \in Ix(ret.N) :
               ret.Jij_exact[i][j] = 0 => ret.out.Jij[i][j] = 0
        /\ \A i \in Ix(ret.N) : ret.hi_exact[i] = 0 => ret.out.hi[i] = 0
        /\ \A i \in Ix(ret.N) : ret.hi_exact[i] # 0 => i \in ret.out.drawn_h
        /\ ret.out.Jij_exact = ret.Jij_exact
        /\ ret.out.hi_exact = ret.hi_exact

\* the parts of C23 that hold: the zero couplings stay 0, the nonzero ones get
\* a noise term, the arguments are left as they were, and with one qubit hi is
\* treated as claimed
C23_Couplings ==
    ret.op = "add_jchaos" =>
        /\ \A i \in Ix(ret.N), j \in Ix(ret.N) :
               /\ ret.Jij_exact[i][j] = 0 => ret.out.Jij[i][j] = 0
               /\ ret.Jij_exact[i][j] # 0 <=> <<i, j>> \in ret.out.drawn_J
        /\ ret.out.Jij_exact = ret.Jij_exact
        /\ ret.out.hi_exact = ret.hi_exact
        /\ ret.N = 1 => (ret.hi_exact[0] # 0 <=> 0 \in ret.out.drawn_h)
        /\ ret.out.drawn_h = IF ret.hi_exact[ret.N - 1] = 0 THEN {} ELSE Ix(ret.N)

\* ---------------------------------------------------------------- summary
\* parameter values: those of Values and a string that differs from one of
\* them only by a space
SpaceValues == Values \cup {[t |-> "str", v |-> <<"x", "y">>]}
\* parameter dictionaries of up to n items on the first two keys
ParamDicts(n) ==
    UNION {{d \in [1 .. k -> {[key |-> Letters[a], val |-> v] : a \in 1 .. 2, v \in SpaceValues}] :
               \A a \in 1 .. k, b \in 1 .. k : a # b => d[a].key # d[b].key} : k \in 0 .. n}
\* self.ising, self.offset and self.solver as summary hashes them, after the
\* conversions of lines 212-221: one parameter each, a string with or without a space
InstanceDicts ==
    {<<[key |-> "a", val |-> v]>> : v \in {[t |-> "str", v |-> <<"x", " ", "y">>],
                                            [t |-> "str", v |-> <<"x", "y">>]}}

\* the dictionary of the four digests, as hash_dict turns it into a string: the
\* keys are in sorted order and a hexdigest holds no space
TdseHashInput(ising_hash, offset_hash, solver_hash, wave_hash) ==
    <<"[", "[", "'ising'", ",", ising_hash, "]", ",",
           "[", "'offset'", ",", offset_hash, "]", ",",
           "[", "'solver'", ",", solver_hash, "]", ",",
           "[", "'wave'", ",", wave_hash, "]", "]">>

\* summary: the four hashes, the file name made of them and the files that
\* save_file writes under that name
summary(ising_d, offset_d, solver_d, wave_params, save) ==
    LET ising_hash == hash_dict(ising_d)
        offset_hash == hash_dict(offset_d)
        solver_hash == hash_dict(solver_d)
        wave_hash == hash_dict(wave_params)
        tdsehash == md5(TdseHashInput(ising_hash, offset_hash, solver_hash, wave_hash))
    IN  [ising_hash |-> ising_hash, offset_hash |-> offset_hash,
         solver_hash |-> solver_hash, wave_hash |-> wave_hash,
         filename |-> tdsehash,
         files |-> IF save
                   THEN {[storage |-> "media", name |-> tdsehash, field |-> f] :
                            f \in {"instance", "solution"}}
                   ELSE {[storage |-> "temp", name |-> tdsehash, field |-> f] :
                            f \in {"instance", "solution"}}]

InitNames == InitHash

CallSummary ==
    /\ ret = NoCall
    /\ \E ising_d \in InstanceDicts, offset_d \in InstanceDicts, solver_d \in InstanceDicts,
          wave_params \in ParamDicts(MaxKeys - 1), save \in BOOLEAN :
           ret' = [op |-> "summary", ising |-> ising_d, offset |-> offset_d,
                   solver |-> solver_d, wave |-> wave_params, save |-> save,
                   out |-> summary(ising_d, offset_d, solver_d, wave_params, save)]
    /\ UNCHANGED <<config, fields, pure, runs>>

NextNames == CallSummary
SpecNames == InitNames /\ [][NextNames]_vars

\* ------------------------------------------------------------- claim C24
\* C24: hash_dict separates distinct parameter sets: two dictionaries that
\* differ in a key or in a value, string values that differ only in spaces
\* included, become different strings before hashing, so the file name of
\* summary is the same only for equal ising, offset, solver and wave parameters.
C24_Original ==
    ret.op = "summary" =>
        /\ \A e \in ParamDicts(MaxKeys - 1) :
               ItemSet(e) # ItemSet(ret.wave) => hash_dict(e).md5 # ret.out.wave_hash.md5
        /\ \A i \in InstanceDicts, o \in InstanceDicts, s \in InstanceDicts,
              w \in ParamDicts(MaxKeys - 1) :
               summary(i, o, s, w, ret.save).filename = ret.out.filename =>
                   /\ ItemSet(i) = ItemSet(ret.ising)
                   /\ ItemSet(o) = ItemSet(ret.offset)
                   /\ ItemSet(s) = ItemSet(ret.solver)
                   /\ ItemSet(w) = ItemSet(ret.wave)

\* a dictionary with the spaces taken out of its string values
Unspaced(d) ==
    {[key |-> d[k].key, val |-> [t |-> d[k].val.t, v |-> RemoveSpaces(d[k].val.v)]] :
        k \in 1 .. Len(d)}

\* what holds of C24: the strings, and so the file names, are the same exactly
\* for parameter sets that are equal once the spaces are taken out of their
\* string values
C24_UpToSpaces ==
    ret.op = "summary" =>
        /\ \A e \in ParamDicts(MaxKeys - 1) :
               Unspaced(e) = Unspaced(ret.wave) <=> hash_dict(e).md5 = ret.out.wave_hash.md5
        /\ \A i \in InstanceDicts, o \in InstanceDicts, s \in InstanceDicts,
              w \in ParamDicts(MaxKeys - 1) :
               summary(i, o, s, w, ret.save).filename = ret.out.filename <=>
                   /\ Unspaced(i) = Unspaced(ret.ising)
                   /\ Unspaced(o) = Unspaced(ret.offset)
                   /\ Unspaced(s) = Unspaced(ret.solver)
                   /\ Unspaced(w) = Unspaced(ret.wave)

====
